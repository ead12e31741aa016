---------------------------- MODULE HashMapProofs ----------------------------
(***************************************************************************)
(* The hash table implements a map, for any keys, any hash function and    *)
(* any size.                                                               *)
(***************************************************************************)
EXTENDS HashMap, SequenceTheorems, TLAPS

Tables(len) == [0..(len - 1) -> Seq(Elem)]

Without(S, k) == {f \in S : f.key # k}

Replaced(t, h, n, v) == [t EXCEPT ![h][n].address = v]

-----------------------------------------------------------------------------
(* Chains                                                                  *)

(* A new head.                                                             *)
LEMMA ConsFacts ==
    ASSUME NEW e \in Elem, NEW s \in Seq(Elem)
    PROVE  /\ Cons(e, s) \in Seq(Elem)
           /\ Len(Cons(e, s)) = Len(s) + 1
           /\ Cons(e, s)[1] = e
           /\ \A m \in 1..Len(s) : Cons(e, s)[m + 1] = s[m]
           /\ \A m \in 1..(Len(s) + 1) : m # 1 => Cons(e, s)[m] = s[m - 1]
<1>1. /\ <<e>> \in Seq(Elem)
      /\ Len(<<e>>) = 1
      /\ <<e>>[1] = e
  OBVIOUS
<1> QED BY <1>1, ConcatProperties DEF Cons

(* The head is taken away.                                                 *)
LEMMA TailFacts ==
    ASSUME NEW s \in Seq(Elem), s # <<>>
    PROVE  /\ 1 \in 1..Len(s)
           /\ Head(s) = s[1]
           /\ Head(s) \in Elem
           /\ Tail(s) \in Seq(Elem)
           /\ Len(Tail(s)) = Len(s) - 1
           /\ \A m \in 1..Len(Tail(s)) : Tail(s)[m] = s[m + 1]
  BY HeadTailProperties, EmptySeq, ElementOfSeq, LenProperties

(* An element is unlinked.                                                 *)
LEMMA RemoveFacts ==
    ASSUME NEW s \in Seq(Elem), NEW n \in 1..Len(s)
    PROVE  /\ RemoveAt(s, n) \in Seq(Elem)
           /\ Len(RemoveAt(s, n)) = Len(s) - 1
           /\ \A m \in 1..(Len(s) - 1) :
                 RemoveAt(s, n)[m] = IF m < n THEN s[m] ELSE s[m + 1]
<1> DEFINE a == SubSeq(s, 1, n - 1)
           b == SubSeq(s, n + 1, Len(s))
<1>1. Len(s) \in Nat /\ n \in Nat
  BY LenProperties
<1>2. a \in Seq(Elem) /\ Len(a) = n - 1 /\ \A m \in 1..(n - 1) : a[m] = s[m]
  BY <1>1
<1>3. /\ b \in Seq(Elem)
      /\ Len(b) = Len(s) - n
      /\ \A m \in 1..(Len(s) - n) : b[m] = s[n + m]
  BY <1>1
<1> HIDE DEF a, b
<1>4. RemoveAt(s, n) = a \o b
  BY DEF RemoveAt, a, b
<1>5. /\ a \o b \in Seq(Elem)
      /\ Len(a \o b) = Len(a) + Len(b)
      /\ \A m \in 1..(Len(a) + Len(b)) :
            (a \o b)[m] = IF m <= Len(a) THEN a[m] ELSE b[m - Len(a)]
  BY <1>2, <1>3, ConcatProperties
<1>6. ASSUME NEW m \in 1..(Len(s) - 1)
      PROVE  (a \o b)[m] = IF m < n THEN s[m] ELSE s[m + 1]
  <2>1. CASE m < n
    BY <1>1, <1>2, <1>3, <1>5, <2>1
  <2>2. CASE ~ (m < n)
    <3>1. (a \o b)[m] = b[m - (n - 1)]
      BY <1>1, <1>2, <1>3, <1>5, <2>2
    <3>2. m - (n - 1) \in 1..(Len(s) - n) /\ n + (m - (n - 1)) = m + 1
      BY <1>1, <2>2
    <3> QED BY <1>3, <2>2, <3>1, <3>2
  <2> QED BY <2>1, <2>2
<1> QED BY <1>1, <1>2, <1>3, <1>4, <1>5, <1>6

(* An address is replaced.                                                 *)
LEMMA UpdateFacts ==
    ASSUME NEW s \in Seq(Elem), NEW n \in 1..Len(s), NEW v \in Values
    PROVE  /\ [s EXCEPT ![n].address = v] \in Seq(Elem)
           /\ Len([s EXCEPT ![n].address = v]) = Len(s)
           /\ \A m \in 1..Len(s) : [s EXCEPT ![n].address = v][m] =
                 IF m = n THEN [key |-> s[n].key, address |-> v] ELSE s[m]
<1>1. s[n] \in Elem
  BY ElementOfSeq
<1>2. [s[n] EXCEPT !.address = v] = [key |-> s[n].key, address |-> v]
  BY <1>1 DEF Elem
<1>3. [key |-> s[n].key, address |-> v] \in Elem
  BY <1>1 DEF Elem
<1> DEFINE x == [key |-> s[n].key, address |-> v]
<1>4. [s EXCEPT ![n].address = v] = [s EXCEPT ![n] = x]
  BY <1>2
<1> HIDE DEF x
<1>5. x \in Elem
  BY <1>3 DEF x
<1>6. /\ [s EXCEPT ![n] = x] \in Seq(Elem)
      /\ Len([s EXCEPT ![n] = x]) = Len(s)
      /\ \A m \in 1..Len(s) : [s EXCEPT ![n] = x][m] = IF m = n THEN x ELSE s[m]
  BY <1>5, ExceptSeq
<1> QED BY <1>4, <1>6 DEF x

-----------------------------------------------------------------------------
(* Tables                                                                  *)

(* The bucket of a key exists.                                             *)
LEMMA SlotFacts ==
    ASSUME NEW k \in Keys, NEW len \in Nat \ {0}
    PROVE  Slot(k, len) \in 0..(len - 1)
  BY HashMapAssumption DEF Slot

(* The elements of a table, position by position.                          *)
LEMMA ElementsMember ==
    ASSUME NEW len \in Nat, NEW t \in Tables(len)
    PROVE  /\ Elements(t) \subseteq Elem
           /\ \A e : e \in Elements(t) <=>
                 \E j \in 0..(len - 1) : \E m \in 1..Len(t[j]) : t[j][m] = e
<1>1. DOMAIN t = 0..(len - 1) /\ \A j \in 0..(len - 1) : t[j] \in Seq(Elem)
  BY DEF Tables
<1>2. \A j \in 0..(len - 1) : DOMAIN t[j] = 1..Len(t[j])
  BY <1>1, LenProperties
<1>3. \A j \in 0..(len - 1) : \A m \in 1..Len(t[j]) : t[j][m] \in Elem
  BY <1>1, ElementOfSeq
<1> QED BY <1>1, <1>2, <1>3 DEF Elements, ToSet

(* A table that is being cleared or created has no elements.               *)
LEMMA EmptyTable ==
    ASSUME NEW len \in Nat
    PROVE  /\ [j \in 0..(len - 1) |-> <<>>] \in Tables(len)
           /\ Elements([j \in 0..(len - 1) |-> <<>>]) = {}
           /\ Placed([j \in 0..(len - 1) |-> <<>>], len)
<1>1. [j \in 0..(len - 1) |-> <<>>] \in Tables(len)
  BY EmptySeq DEF Tables
<1> QED BY <1>1, ElementsMember DEF Placed

(* In a table whose elements are in place, an entry is determined by its   *)
(* key.                                                                    *)
LEMMA PlacedUnique ==
    ASSUME NEW len \in Nat, NEW t \in Tables(len), Placed(t, len),
           NEW e \in Elements(t), NEW f \in Elements(t), e.key = f.key
    PROVE  e = f
<1>1. PICK j \in 0..(len - 1) : \E m \in 1..Len(t[j]) : t[j][m] = e
  BY ElementsMember
<1>2. PICK l \in 0..(len - 1) : \E m \in 1..Len(t[l]) : t[l][m] = f
  BY ElementsMember
<1>3. j = Slot(e.key, len) /\ l = Slot(f.key, len)
  BY <1>1, <1>2 DEF Placed
<1>4. j = l
  BY <1>3
<1> QED BY <1>1, <1>2, <1>4 DEF Placed

(* Table t of len buckets with element e at the head of its chain.         *)
Pushed(t, e, len) == [t EXCEPT ![Slot(e.key, len)] = Cons(e, @)]

(* A new head of a chain, in insert_entry and in a resize.                 *)
LEMMA AddToTable ==
    ASSUME NEW len \in Nat \ {0}, NEW t \in Tables(len), Placed(t, len),
           NEW e \in Elem, \A f \in Elements(t) : f.key # e.key,
           NEW u, u = Pushed(t, e, len)
    PROVE  /\ u \in Tables(len)
           /\ Placed(u, len)
           /\ Elements(u) = Elements(t) \cup {e}
<1> DEFINE h == Slot(e.key, len)
<1>1. h \in 0..(len - 1)
  BY SlotFacts DEF Elem
<1> HIDE DEF h
<1>2. t[h] \in Seq(Elem)
  BY <1>1 DEF Tables
<1>3. Cons(e, t[h]) \in Seq(Elem)
  BY <1>2, ConsFacts
<1>4. u \in Tables(len)
  BY <1>1, <1>3 DEF Pushed, Tables, h
<1>5. u[h] = Cons(e, t[h]) /\ \A j \in 0..(len - 1) : j # h => u[j] = t[j]
  BY <1>1 DEF Pushed, Tables, h
<1>6. \A m \in 1..Len(t[h]) : t[h][m].key # e.key
  BY <1>1, ElementsMember
<1>7. /\ Len(u[h]) = Len(t[h]) + 1
      /\ Len(t[h]) \in Nat
      /\ u[h][1] = e
      /\ \A m \in 1..Len(t[h]) : u[h][m + 1] = t[h][m]
      /\ \A m \in 1..(Len(t[h]) + 1) : m # 1 => u[h][m] = t[h][m - 1]
  <2>1. Len(t[h]) \in Nat
    BY <1>2, LenProperties
  <2>2. /\ Len(Cons(e, t[h])) = Len(t[h]) + 1
        /\ Cons(e, t[h])[1] = e
        /\ \A m \in 1..Len(t[h]) : Cons(e, t[h])[m + 1] = t[h][m]
        /\ \A m \in 1..(Len(t[h]) + 1) :
              m # 1 => Cons(e, t[h])[m] = t[h][m - 1]
    BY <1>2, ConsFacts
  <2> QED BY <1>5, <2>1, <2>2
<1>8. \A x : x \in Elements(u) <=>
           \E j \in 0..(len - 1) : \E m \in 1..Len(u[j]) : u[j][m] = x
  BY <1>4, ElementsMember
<1>9. \A x : x \in Elements(t) <=>
           \E j \in 0..(len - 1) : \E m \in 1..Len(t[j]) : t[j][m] = x
  BY ElementsMember
<1>10. ASSUME NEW x PROVE x \in Elements(u) <=> x \in Elements(t) \cup {e}
  <2>1. ASSUME x \in Elements(u) PROVE x \in Elements(t) \cup {e}
    <3>0. PICK j \in 0..(len - 1) : \E m \in 1..Len(u[j]) : u[j][m] = x
      BY <1>8, <2>1
    <3>1. PICK m \in 1..Len(u[j]) : u[j][m] = x
      BY <3>0
    <3>2. CASE j # h
      BY <1>5, <1>9, <3>1, <3>2
    <3>3. CASE j = h /\ m = 1
      BY <1>7, <3>1, <3>3
    <3>4. CASE j = h /\ m # 1
      <4>1. m - 1 \in 1..Len(t[h]) /\ t[h][m - 1] = x
        BY <1>7, <3>1, <3>4
      <4> QED BY <1>1, <1>9, <4>1
    <3> QED BY <3>2, <3>3, <3>4
  <2>2. ASSUME x \in Elements(t) PROVE x \in Elements(u)
    <3>0. PICK j \in 0..(len - 1) : \E m \in 1..Len(t[j]) : t[j][m] = x
      BY <1>9, <2>2
    <3>1. PICK m \in 1..Len(t[j]) : t[j][m] = x
      BY <3>0
    <3>2. CASE j # h
      BY <1>5, <1>8, <3>1, <3>2
    <3>3. CASE j = h
      <4>1. m + 1 \in 1..Len(u[h]) /\ u[h][m + 1] = x
        BY <1>7, <3>1, <3>3
      <4> QED BY <1>1, <1>8, <4>1
    <3> QED BY <3>2, <3>3
  <2>3. e \in Elements(u)
    <3>1. 1 \in 1..Len(u[h]) /\ u[h][1] = e
      BY <1>7
    <3> QED BY <1>1, <1>8, <3>1
  <2> QED BY <2>1, <2>2, <2>3
<1>11. ASSUME NEW j \in 0..(len - 1), NEW m \in 1..Len(u[j])
      PROVE  /\ Slot(u[j][m].key, len) = j
             /\ \A n \in 1..Len(u[j]) : u[j][m].key = u[j][n].key => m = n
  <2>1. CASE j # h
    BY <1>5, <2>1 DEF Placed
  <2>2. CASE j = h
    <3>1. /\ u[h][m] = IF m = 1 THEN e ELSE t[h][m - 1]
          /\ m # 1 => m - 1 \in 1..Len(t[h])
      BY <1>7, <2>2
    <3>2. Slot(u[j][m].key, len) = j
      BY <1>1, <2>2, <3>1 DEF Placed, h
    <3>3. ASSUME NEW n \in 1..Len(u[j]), u[j][m].key = u[j][n].key
          PROVE  m = n
      <4>1. /\ u[h][n] = IF n = 1 THEN e ELSE t[h][n - 1]
            /\ n # 1 => n - 1 \in 1..Len(t[h])
        <5>1. n \in 1..(Len(t[h]) + 1) /\ Len(t[h]) \in Nat
          BY <1>7, <2>2
        <5> QED BY <1>7, <5>1
      <4>2. m \in Nat /\ n \in Nat
        BY <1>7, <2>2
      <4>3. CASE m = 1 \/ n = 1
        BY <1>6, <2>2, <3>1, <3>3, <4>1, <4>3
      <4>4. CASE m # 1 /\ n # 1
        <5>1. m - 1 = n - 1
          BY <1>1, <2>2, <3>1, <3>3, <4>1, <4>4 DEF Placed
        <5> QED BY <4>2, <5>1
      <4> QED BY <4>3, <4>4
    <3> QED BY <3>2, <3>3
  <2> QED BY <2>1, <2>2
<1> QED BY <1>4, <1>10, <1>11 DEF Placed

(* The head of a chain is taken away, in a resize.                         *)
LEMMA TakeFromTable ==
    ASSUME NEW len \in Nat, NEW t \in Tables(len), Placed(t, len),
           NEW h \in 0..(len - 1), t[h] # <<>>,
           NEW u, u = [t EXCEPT ![h] = Tail(@)]
    PROVE  /\ u \in Tables(len)
           /\ Placed(u, len)
           /\ Head(t[h]) \in Elements(t)
           /\ Elements(u) = Elements(t) \ {Head(t[h])}
           /\ \A f \in Elements(u) : f.key # Head(t[h]).key
<1>1. t[h] \in Seq(Elem)
  BY DEF Tables
<1>2. /\ 1 \in 1..Len(t[h])
      /\ Head(t[h]) = t[h][1]
      /\ Tail(t[h]) \in Seq(Elem)
      /\ Len(Tail(t[h])) = Len(t[h]) - 1
      /\ \A m \in 1..Len(Tail(t[h])) : Tail(t[h])[m] = t[h][m + 1]
  BY <1>1, TailFacts
<1>3. u \in Tables(len)
  BY <1>2 DEF Tables
<1>4. /\ \A j \in 0..(len - 1) : j # h => u[j] = t[j]
      /\ u[h] = Tail(t[h])
  BY DEF Tables
<1>5. /\ Len(t[h]) \in Nat
      /\ Len(u[h]) = Len(t[h]) - 1
      /\ \A m \in 1..Len(u[h]) : u[h][m] = t[h][m + 1]
  BY <1>1, <1>2, <1>4, LenProperties
<1>6. \A x : x \in Elements(u) <=>
           \E j \in 0..(len - 1) : \E m \in 1..Len(u[j]) : u[j][m] = x
  BY <1>3, ElementsMember
<1>7. \A x : x \in Elements(t) <=>
           \E j \in 0..(len - 1) : \E m \in 1..Len(t[j]) : t[j][m] = x
  BY ElementsMember
<1>8. Head(t[h]) \in Elements(t)
  BY <1>2, <1>7
<1>9. ASSUME NEW x \in Elements(u)
      PROVE  x \in Elements(t) /\ x.key # Head(t[h]).key
  <2>1. PICK j \in 0..(len - 1) : \E m \in 1..Len(u[j]) : u[j][m] = x
    BY <1>6
  <2>2. PICK m \in 1..Len(u[j]) : u[j][m] = x
    BY <2>1
  <2>3. CASE j # h
    <3>1. m \in 1..Len(t[j]) /\ t[j][m] = x
      BY <1>4, <2>2, <2>3
    <3>2. Slot(x.key, len) = j
      BY <3>1 DEF Placed
    <3>3. Slot(t[h][1].key, len) = h
      BY <1>2 DEF Placed
    <3> QED BY <1>2, <1>7, <2>3, <3>1, <3>2, <3>3
  <2>4. CASE j = h
    <3>1. m + 1 \in 1..Len(t[h]) /\ t[h][m + 1] = x /\ m + 1 # 1
      BY <1>5, <2>2, <2>4
    <3>2. x.key # t[h][1].key
      BY <1>2, <3>1 DEF Placed
    <3> QED BY <1>2, <1>7, <3>1, <3>2
  <2> QED BY <2>3, <2>4
<1>10. ASSUME NEW x \in Elements(t), x # Head(t[h])
       PROVE  x \in Elements(u)
  <2>1. PICK j \in 0..(len - 1) : \E m \in 1..Len(t[j]) : t[j][m] = x
    BY <1>7
  <2>2. PICK m \in 1..Len(t[j]) : t[j][m] = x
    BY <2>1
  <2>3. CASE j # h
    BY <1>4, <1>6, <2>2, <2>3
  <2>4. CASE j = h
    <3>1. m # 1
      BY <1>2, <1>10, <2>2, <2>4
    <3>2. m - 1 \in 1..Len(u[h]) /\ u[h][m - 1] = x
      BY <1>5, <2>2, <2>4, <3>1
    <3> QED BY <1>6, <3>2
  <2> QED BY <2>3, <2>4
<1>11. Placed(u, len)
  <2> SUFFICES ASSUME NEW j \in 0..(len - 1), NEW m \in 1..Len(u[j])
               PROVE  /\ Slot(u[j][m].key, len) = j
                      /\ \A n \in 1..Len(u[j]) :
                            u[j][m].key = u[j][n].key => m = n
    BY DEF Placed
  <2>1. CASE j # h
    BY <1>4, <2>1 DEF Placed
  <2>2. CASE j = h
    <3>1. m + 1 \in 1..Len(t[h]) /\ u[h][m] = t[h][m + 1]
      BY <1>5, <2>2
    <3>2. ASSUME NEW n \in 1..Len(u[j]), u[j][m].key = u[j][n].key
          PROVE  m = n
      <4>1. n + 1 \in 1..Len(t[h]) /\ u[h][n] = t[h][n + 1]
        BY <1>5, <2>2
      <4>2. m + 1 = n + 1
        BY <2>2, <3>1, <3>2, <4>1 DEF Placed
      <4> QED BY <1>5, <2>2, <4>2
    <3> QED BY <2>2, <3>1, <3>2 DEF Placed
  <2> QED BY <2>1, <2>2
<1> QED BY <1>3, <1>8, <1>9, <1>10, <1>11

(* An element is unlinked by delete_entry.                                 *)
LEMMA RemoveFromTable ==
    ASSUME NEW len \in Nat, NEW t \in Tables(len), Placed(t, len),
           NEW h \in 0..(len - 1), NEW n \in 1..Len(t[h]),
           NEW u, u = [t EXCEPT ![h] = RemoveAt(@, n)]
    PROVE  /\ u \in Tables(len)
           /\ Placed(u, len)
           /\ Elements(u) = Without(Elements(t), t[h][n].key)
<1>1. t[h] \in Seq(Elem)
  BY DEF Tables
<1>2. /\ RemoveAt(t[h], n) \in Seq(Elem)
      /\ Len(RemoveAt(t[h], n)) = Len(t[h]) - 1
      /\ \A m \in 1..(Len(t[h]) - 1) :
            RemoveAt(t[h], n)[m] = IF m < n THEN t[h][m] ELSE t[h][m + 1]
  BY <1>1, RemoveFacts
<1>3. u \in Tables(len)
  BY <1>2 DEF Tables
<1>4. /\ \A j \in 0..(len - 1) : j # h => u[j] = t[j]
      /\ u[h] = RemoveAt(t[h], n)
  BY DEF Tables
<1>5. /\ Len(t[h]) \in Nat
      /\ n \in Nat
      /\ Len(u[h]) = Len(t[h]) - 1
      /\ \A m \in 1..Len(u[h]) :
            u[h][m] = IF m < n THEN t[h][m] ELSE t[h][m + 1]
  <2>1. Len(t[h]) \in Nat /\ n \in Nat
    BY <1>1, LenProperties
  <2>2. \A m \in 1..Len(u[h]) : m \in 1..(Len(t[h]) - 1)
    BY <1>2, <1>4
  <2> QED BY <1>2, <1>4, <2>1, <2>2
<1>6. \A x : x \in Elements(u) <=>
           \E j \in 0..(len - 1) : \E m \in 1..Len(u[j]) : u[j][m] = x
  BY <1>3, ElementsMember
<1>7. \A x : x \in Elements(t) <=>
           \E j \in 0..(len - 1) : \E m \in 1..Len(t[j]) : t[j][m] = x
  BY ElementsMember
<1>8. ASSUME NEW x \in Elements(u)
      PROVE  x \in Elements(t) /\ x.key # t[h][n].key
  <2>1. PICK j \in 0..(len - 1) : \E m \in 1..Len(u[j]) : u[j][m] = x
    BY <1>6
  <2>2. PICK m \in 1..Len(u[j]) : u[j][m] = x
    BY <2>1
  <2>3. CASE j # h
    <3>1. m \in 1..Len(t[j]) /\ t[j][m] = x
      BY <1>4, <2>2, <2>3
    <3>2. Slot(x.key, len) = j
      BY <3>1 DEF Placed
    <3>3. Slot(t[h][n].key, len) = h
      BY DEF Placed
    <3> QED BY <1>7, <2>3, <3>1, <3>2, <3>3
  <2>4. CASE j = h
    <3>1. PICK l \in 1..Len(t[h]) : t[h][l] = x /\ l # n
      <4>1. CASE m < n
        BY <1>5, <2>2, <2>4, <4>1
      <4>2. CASE ~ (m < n)
        <5>1. m + 1 \in 1..Len(t[h]) /\ t[h][m + 1] = x /\ m + 1 # n
          BY <1>5, <2>2, <2>4, <4>2
        <5> QED BY <5>1
      <4> QED BY <4>1, <4>2
    <3>2. x.key # t[h][n].key
      BY <3>1 DEF Placed
    <3> QED BY <1>7, <3>1, <3>2
  <2> QED BY <2>3, <2>4
<1>9. ASSUME NEW x \in Elements(t), x.key # t[h][n].key
      PROVE  x \in Elements(u)
  <2>1. PICK j \in 0..(len - 1) : \E m \in 1..Len(t[j]) : t[j][m] = x
    BY <1>7
  <2>2. PICK m \in 1..Len(t[j]) : t[j][m] = x
    BY <2>1
  <2>3. CASE j # h
    BY <1>4, <1>6, <2>2, <2>3
  <2>4. CASE j = h
    <3>1. m # n
      BY <1>9, <2>2, <2>4
    <3>2. CASE m < n
      <4>1. m \in 1..Len(u[h]) /\ u[h][m] = x
        BY <1>5, <2>2, <2>4, <3>2
      <4> QED BY <1>6, <4>1
    <3>3. CASE m > n
      <4>1. m - 1 \in 1..Len(u[h]) /\ u[h][m - 1] = x
        BY <1>5, <2>2, <2>4, <3>3, SMTT(30)
      <4> QED BY <1>6, <4>1
    <3> QED BY <1>5, <2>2, <2>4, <3>1, <3>2, <3>3
  <2> QED BY <2>3, <2>4
<1>10. Placed(u, len)
  <2> SUFFICES ASSUME NEW j \in 0..(len - 1), NEW m \in 1..Len(u[j])
               PROVE  /\ Slot(u[j][m].key, len) = j
                      /\ \A l \in 1..Len(u[j]) :
                            u[j][m].key = u[j][l].key => m = l
    BY DEF Placed
  <2>1. CASE j # h
    BY <1>4, <2>1 DEF Placed
  <2>2. CASE j = h
    <3> DEFINE old(p) == IF p < n THEN p ELSE p + 1
    <3>1. \A p \in 1..Len(u[h]) :
             old(p) \in 1..Len(t[h]) /\ u[h][p] = t[h][old(p)]
      BY <1>5
    <3>2. \A p, q \in 1..Len(u[h]) : old(p) = old(q) => p = q
      BY <1>5
    <3> HIDE DEF old
    <3> QED BY <2>2, <3>1, <3>2, SMTT(30) DEF Placed
  <2> QED BY <2>1, <2>2
<1>11. Elements(u) = Without(Elements(t), t[h][n].key)
  BY <1>8, <1>9 DEF Without
<1> QED BY <1>3, <1>10, <1>11

(* The address of an element is replaced by insert_entry.                  *)
LEMMA UpdateInTable ==
    ASSUME NEW len \in Nat, NEW t \in Tables(len), Placed(t, len),
           NEW h \in 0..(len - 1), NEW n \in 1..Len(t[h]), NEW v \in Values,
           NEW u, u = Replaced(t, h, n, v)
    PROVE  /\ u \in Tables(len)
           /\ Placed(u, len)
           /\ Elements(u) = Without(Elements(t), t[h][n].key)
                            \cup {[key |-> t[h][n].key, address |-> v]}
<1>1. t[h] \in Seq(Elem)
  BY DEF Tables
<1> DEFINE s == [t[h] EXCEPT ![n].address = v]
           e == [key |-> t[h][n].key, address |-> v]
<1>2. /\ s \in Seq(Elem)
      /\ Len(s) = Len(t[h])
      /\ \A m \in 1..Len(t[h]) : s[m] = IF m = n THEN e ELSE t[h][m]
  BY <1>1, UpdateFacts
<1>3. u = [t EXCEPT ![h] = s]
  BY Zenon DEF Replaced
<1>12. e.key = t[h][n].key
  OBVIOUS
<1> HIDE DEF s, e
<1>4. u \in Tables(len)
  BY <1>2, <1>3 DEF Tables
<1>5. (\A j \in 0..(len - 1) : j # h => u[j] = t[j]) /\ u[h] = s
  BY <1>3 DEF Tables
<1>6. \A x : x \in Elements(u) <=>
           \E j \in 0..(len - 1) : \E m \in 1..Len(u[j]) : u[j][m] = x
  BY <1>4, ElementsMember
<1>7. \A x : x \in Elements(t) <=>
           \E j \in 0..(len - 1) : \E m \in 1..Len(t[j]) : t[j][m] = x
  BY ElementsMember
<1>8. ASSUME NEW x \in Elements(u)
      PROVE  x = e \/ (x \in Elements(t) /\ x.key # t[h][n].key)
  <2>1. PICK j \in 0..(len - 1) : \E m \in 1..Len(u[j]) : u[j][m] = x
    BY <1>6
  <2>2. PICK m \in 1..Len(u[j]) : u[j][m] = x
    BY <2>1
  <2>3. CASE j # h
    <3>1. m \in 1..Len(t[j]) /\ t[j][m] = x
      BY <1>5, <2>2, <2>3
    <3>2. Slot(x.key, len) = j /\ Slot(t[h][n].key, len) = h
      BY <3>1 DEF Placed
    <3> QED BY <1>7, <2>3, <3>1, <3>2
  <2>4. CASE j = h /\ m # n
    <3>1. m \in 1..Len(t[h]) /\ t[h][m] = x
      BY <1>2, <1>5, <2>2, <2>4
    <3>2. x.key # t[h][n].key
      BY <2>4, <3>1 DEF Placed
    <3> QED BY <1>7, <3>1, <3>2
  <2>5. CASE j = h /\ m = n
    BY <1>2, <1>5, <2>2, <2>5
  <2> QED BY <2>3, <2>4, <2>5
<1>9. ASSUME NEW x \in Elements(t), x.key # t[h][n].key
      PROVE  x \in Elements(u)
  <2>1. PICK j \in 0..(len - 1) : \E m \in 1..Len(t[j]) : t[j][m] = x
    BY <1>7
  <2>2. PICK m \in 1..Len(t[j]) : t[j][m] = x
    BY <2>1
  <2>3. m \in 1..Len(u[j]) /\ u[j][m] = x
    BY <1>2, <1>5, <1>9, <2>2
  <2> QED BY <1>6, <2>3
<1>10. e \in Elements(u)
  <2>1. n \in 1..Len(u[h]) /\ u[h][n] = e
    BY <1>2, <1>5
  <2> QED BY <1>6, <2>1
<1>11. Placed(u, len)
  <2>1. ASSUME NEW j \in 0..(len - 1)
        PROVE  /\ Len(u[j]) = Len(t[j])
               /\ \A m \in 1..Len(t[j]) : u[j][m].key = t[j][m].key
    BY <1>2, <1>5, <1>12
  <2>2. ASSUME NEW j \in 0..(len - 1), NEW m \in 1..Len(u[j])
        PROVE  /\ Slot(u[j][m].key, len) = j
               /\ \A l \in 1..Len(u[j]) : u[j][m].key = u[j][l].key => m = l
    <3>1. m \in 1..Len(t[j]) /\ u[j][m].key = t[j][m].key
      BY <2>1
    <3>2. \A l \in 1..Len(u[j]) : l \in 1..Len(t[j]) /\ u[j][l].key = t[j][l].key
      BY <2>1
    <3> QED BY <3>1, <3>2 DEF Placed
  <2> QED BY <2>2 DEF Placed
<1>13. Elements(u) = Without(Elements(t), t[h][n].key) \cup {e}
  BY <1>8, <1>9, <1>10 DEF Without
<1>14. Elements(u) = Without(Elements(t), t[h][n].key)
                     \cup {[key |-> t[h][n].key, address |-> v]}
  BY <1>13, Zenon DEF e
<1> QED BY <1>4, <1>11, <1>14

-----------------------------------------------------------------------------
(* The operations                                                          *)

(* get_ptr_to_elem_by_key looks into one bucket and yet finds the key      *)
(* wherever it is.                                                         *)
LEMMA PositionFacts ==
    ASSUME TypeOK, Placed(table, length), NEW k \in Keys
    PROVE  /\ Slot(k, length) \in 0..(length - 1)
           /\ get_ptr_to_elem_by_key(k) = 0
                 => \A e \in Elements(table) : e.key # k
           /\ get_ptr_to_elem_by_key(k) # 0
                 => /\ get_ptr_to_elem_by_key(k)
                          \in 1..Len(table[Slot(k, length)])
                    /\ table[Slot(k, length)][get_ptr_to_elem_by_key(k)].key = k
<1> DEFINE h == Slot(k, length)
           match == {n \in 1..Len(table[h]) : table[h][n].key = k}
<1>1. h \in 0..(length - 1)
  BY SlotFacts DEF TypeOK
<1>2. get_ptr_to_elem_by_key(k) = IF match = {} THEN 0 ELSE Min(match)
  BY DEF get_ptr_to_elem_by_key
<1> HIDE DEF h
<1>3. table \in Tables(length) /\ length \in Nat
  BY DEF TypeOK, Tables
<1>4. ASSUME match = {}, NEW e \in Elements(table)
      PROVE  e.key # k
  <2>1. PICK j \in 0..(length - 1) :
           \E m \in 1..Len(table[j]) : table[j][m] = e
    BY <1>3, ElementsMember
  <2>2. j = Slot(e.key, length)
    BY <2>1 DEF Placed
  <2> QED BY <1>4, <2>1, <2>2 DEF h
<1>5. ASSUME match # {}
      PROVE  Min(match) \in match
  <2>1. PICK n \in match : TRUE
    BY <1>5
  <2>2. \A m \in match : m = n
    BY <1>1, <2>1 DEF Placed
  <2>3. n \in Nat
    BY <2>1
  <2>4. n \in match /\ \A m \in match : n <= m
    BY <2>1, <2>2, <2>3
  <2> HIDE DEF match
  <2>5. Min(match) \in match
    BY <2>4 DEF Min
  <2> QED BY <2>5
<1>6. \A n \in match : n # 0
  OBVIOUS
<1>7. ASSUME match # {}
      PROVE  /\ Min(match) # 0
             /\ Min(match) \in 1..Len(table[h])
             /\ table[h][Min(match)].key = k
  BY <1>5, <1>6, <1>7
<1> HIDE DEF match
<1> QED BY <1>1, <1>2, <1>4, <1>7 DEF h

(* A table without buckets has no elements.                                *)
LEMMA NoTable == ASSUME NEW t \in Tables(0) PROVE Elements(t) = {}
  BY ElementsMember

(* The tables of a state that satisfies the invariant.                     *)
LEMMA InvTables ==
    ASSUME Inv
    PROVE  /\ length \in Nat \ {0}
           /\ table \in Tables(length)
           /\ Placed(table, length)
           /\ new_length \in Nat
           /\ new_table \in Tables(new_length)
           /\ Placed(new_table, new_length)
           /\ new_length = 0 => Elements(new_table) = {} /\ Entries = Elements(table)
<1>1. new_length = 0 => Elements(new_table) = {}
  BY NoTable DEF Inv, TypeOK, Tables
<1> QED BY <1>1 DEF Inv, TypeOK, Tables, Entries

(* create_hash_table *)
LEMMA InitInv == Init => Inv /\ Map!Init
<1> SUFFICES ASSUME Init PROVE Inv /\ Map!Init
  OBVIOUS
<1>1. /\ length \in Nat \ {0}
      /\ 3 * length > 4 * (elem_count + 1)
      /\ new_length = 0 /\ i = 0 /\ live = TRUE /\ result = {}
      /\ elem_count \in Nat
  BY HashMapAssumption DEF Init
<1>2. /\ table \in Tables(length)
      /\ Elements(table) = {}
      /\ Placed(table, length)
  BY <1>1, EmptyTable DEF Init
<1>3. /\ new_table \in Tables(new_length)
      /\ Elements(new_table) = {}
      /\ Placed(new_table, new_length)
  BY <1>1, EmptyTable DEF Init
<1>4. TypeOK
  BY <1>1, <1>2, <1>3 DEF TypeOK, Tables
<1>5. Apart /\ Emptied /\ BelowLoad
  BY <1>1, <1>2, <1>3 DEF Apart, Emptied, BelowLoad
<1> QED BY <1>1, <1>2, <1>3, <1>4, <1>5 DEF Inv, Map!Init, Entries

(* insert_entry of a key that is there.                                    *)
LEMMA UpdateInv ==
    ASSUME Inv, Idle, NEW k \in Keys, NEW v \in Values, UpdateEntry(k, v)
    PROVE  Inv' /\ Map!Put(k, v)
<1> DEFINE h == Slot(k, length)
           n == get_ptr_to_elem_by_key(k)
<1>1. /\ n # 0
      /\ table' = [table EXCEPT ![h][n].address = v]
      /\ result' = {"SUCCESS", "UPDATED"}
      /\ UNCHANGED <<live, length, elem_count, new_length, new_table, i>>
      /\ new_length = 0 /\ i = 0
  BY DEF UpdateEntry, Idle, Inv
<1>2. /\ h \in 0..(length - 1)
      /\ n \in 1..Len(table[h])
      /\ table[h][n].key = k
  BY <1>1, PositionFacts DEF Inv
<1> HIDE DEF h, n
<1>3. /\ table' \in Tables(length)
      /\ Placed(table', length)
      /\ Elements(table') = Without(Elements(table), table[h][n].key)
                            \cup {[key |-> table[h][n].key, address |-> v]}
  <2>1. length \in Nat /\ table \in Tables(length) /\ Placed(table, length)
    BY InvTables
  <2>2. table' = Replaced(table, h, n, v)
    BY <1>1 DEF Replaced
  <2> QED BY <1>2, <2>1, <2>2, UpdateInTable
<1>4. Elements(table)' = Without(Elements(table), k)
                        \cup {[key |-> k, address |-> v]}
  <2>1. Elements(table)' = Elements(table')
    BY DEF Elements
  <2> QED BY <1>2, <1>3, <2>1
<1>5. Elements(new_table) = {} /\ Elements(new_table)' = {}
  <2>1. Elements(new_table) = {}
    BY <1>1, InvTables
  <2>2. Elements(new_table)' = Elements(new_table)
    BY <1>1 DEF Elements
  <2> QED BY <2>1, <2>2
<1>6. Inv'
  <2>1. TypeOK'
    BY <1>1, <1>3 DEF Inv, TypeOK, Tables, Flags
  <2>2. Placed(table, length)' /\ Placed(new_table, new_length)'
    BY <1>1, <1>3 DEF Inv, Placed
  <2>3. Apart' /\ Emptied' /\ BelowLoad'
    BY <1>1, <1>5 DEF Inv, Apart, Emptied, BelowLoad, TypeOK
  <2> QED BY <1>1, <2>1, <2>2, <2>3 DEF Inv
<1>7. Map!Put(k, v)
  <2>1. PICK e \in Entries : e.key = k
    <3>1. table[h][n] \in Elements(table)
      BY <1>2, InvTables, ElementsMember
    <3> QED BY <1>2, <3>1 DEF Entries
  <2> QED BY <1>1, <1>4, <1>5, <2>1
          DEF Map!Put, Map!Others, Map!Has, Entries, Without
<1> QED BY <1>6, <1>7

(* insert_entry of a new key; a resize may begin.                          *)
LEMMA AddInv ==
    ASSUME Inv, Idle, NEW k \in Keys, NEW v \in Values, AddEntry(k, v)
    PROVE  Inv' /\ Map!Put(k, v)
<1> DEFINE e == [key |-> k, address |-> v]
           len == check_grow(length, elem_count + 1)
<1>1. /\ get_ptr_to_elem_by_key(k) = 0
      /\ table' = [table EXCEPT ![Slot(k, length)] = Cons(e, @)]
      /\ elem_count' = elem_count + 1
      /\ new_length' = len
      /\ new_table' = [j \in 0..(len - 1) |-> <<>>]
      /\ i' = 0
      /\ result' \ {"COLLISION", "RESIZED"} = {"SUCCESS"}
      /\ result' \subseteq Flags
      /\ UNCHANGED <<live, length>>
  BY DEF AddEntry, Flags
<1>2. /\ new_length = 0
      /\ live
      /\ length \in Nat \ {0}
      /\ elem_count \in Nat
      /\ 3 * length > 4 * (elem_count + 1)
  BY DEF Inv, TypeOK, Idle, BelowLoad
<1>3. /\ len \in Nat
      /\ len = 0 => 3 * length > 4 * (elem_count + 1 + 1)
      /\ len # 0 => 3 * len > 4 * (elem_count + 1 + 1)
  BY <1>2 DEF check_grow
<1> HIDE DEF len
<1>4. e \in Elem /\ e.key = k
  BY DEF Elem
<1> HIDE DEF e
<1>5. \A f \in Elements(table) : f.key # e.key
  BY <1>1, <1>4, PositionFacts DEF Inv
<1>6. /\ table' \in Tables(length)
      /\ Placed(table', length)
      /\ Elements(table') = Elements(table) \cup {e}
  <2>1. table \in Tables(length) /\ Placed(table, length)
    BY InvTables
  <2>2. table' = Pushed(table, e, length)
    BY <1>1, <1>4 DEF Pushed
  <2> QED BY <1>2, <1>4, <1>5, <2>1, <2>2, AddToTable
<1>7. /\ new_table' \in Tables(len)
      /\ Placed(new_table', len)
      /\ Elements(new_table') = {}
  BY <1>1, <1>3, EmptyTable
<1>8. /\ Elements(table)' = Elements(table) \cup {e}
      /\ Elements(new_table)' = {}
  <2>1. /\ Elements(table)' = Elements(table')
        /\ Elements(new_table)' = Elements(new_table')
    BY DEF Elements
  <2> QED BY <1>6, <1>7, <2>1
<1>9. Inv'
  <2>1. TypeOK'
    BY <1>1, <1>2, <1>3, <1>6, <1>7 DEF Inv, TypeOK, Tables
  <2>2. Placed(table, length)' /\ Placed(new_table, new_length)'
    BY <1>1, <1>6, <1>7 DEF Placed
  <2>3. Apart'
    BY <1>8 DEF Apart
  <2>4. Emptied'
    BY <1>1 DEF Emptied
  <2>5. BelowLoad'
    BY <1>1, <1>3 DEF BelowLoad
  <2> QED BY <1>1, <1>2, <2>1, <2>2, <2>3, <2>4, <2>5 DEF Inv
<1>10. Map!Put(k, v)
  <2>1. Entries = Elements(table) /\ Entries' = Elements(table) \cup {e}
    BY <1>2, <1>8, InvTables DEF Entries
  <2>2. ~ Map!Has(k) /\ Map!Others(k) = Entries
    BY <1>4, <1>5, <2>1 DEF Map!Has, Map!Others
  <2>3. (result \ {"COLLISION", "RESIZED"})' = {"SUCCESS"}
    BY <1>1
  <2> QED BY <2>1, <2>2, <2>3 DEF Map!Put, e
<1> QED BY <1>9, <1>10

(* A resize moves an element; no entry changes.                            *)
LEMMA MoveInv ==
    ASSUME Inv, MoveElement
    PROVE  Inv' /\ Entries' = Entries /\ result' = result
<1> DEFINE e == Head(table[i])
<1>1. /\ live
      /\ i < length
      /\ new_length # 0
      /\ table[i] # <<>>
      /\ new_table' = [new_table EXCEPT ![Slot(e.key, new_length)] = Cons(e, @)]
      /\ table' = [table EXCEPT ![i] = Tail(@)]
      /\ UNCHANGED <<live, length, elem_count, new_length, i, result>>
  BY DEF MoveElement
<1>2. /\ length \in Nat
      /\ table \in Tables(length)
      /\ Placed(table, length)
      /\ new_length \in Nat \ {0}
      /\ new_table \in Tables(new_length)
      /\ Placed(new_table, new_length)
      /\ i \in 0..(length - 1)
  BY <1>1, InvTables DEF Inv, TypeOK
<1>3. /\ table' \in Tables(length)
      /\ Placed(table', length)
      /\ e \in Elements(table)
      /\ Elements(table') = Elements(table) \ {e}
      /\ \A f \in Elements(table') : f.key # e.key
  BY <1>1, <1>2, TakeFromTable, ZenonT(30)
<1> HIDE DEF e
<1>4. e \in Elem
  BY <1>2, <1>3, ElementsMember
<1>5. \A f \in Elements(new_table) : f.key # e.key
  BY <1>3 DEF Inv, Apart
<1>6. /\ new_table' \in Tables(new_length)
      /\ Placed(new_table', new_length)
      /\ Elements(new_table') = Elements(new_table) \cup {e}
  <2>1. new_table' = Pushed(new_table, e, new_length)
    BY <1>1 DEF Pushed
  <2> QED BY <1>2, <1>4, <1>5, <2>1, AddToTable
<1>7. /\ Elements(table)' = Elements(table) \ {e}
      /\ Elements(new_table)' = Elements(new_table) \cup {e}
  <2>1. /\ Elements(table)' = Elements(table')
        /\ Elements(new_table)' = Elements(new_table')
    BY DEF Elements
  <2> QED BY <1>3, <1>6, <2>1
<1>8. Entries' = Entries
  BY <1>3, <1>7 DEF Entries
<1>9. Inv'
  <2>1. TypeOK'
    BY <1>1, <1>3, <1>6 DEF Inv, TypeOK, Tables
  <2>2. Placed(table, length)' /\ Placed(new_table, new_length)'
    <3>1. /\ Placed(table, length)' <=> Placed(table', length')
          /\ Placed(new_table, new_length)' <=> Placed(new_table', new_length')
      BY DEF Placed
    <3>2. length' = length /\ new_length' = new_length
      BY <1>1
    <3> QED BY <1>3, <1>6, <3>1, <3>2
  <2>3. Apart'
    <3>1. \A f \in Elements(table) \ {e} : f.key # e.key
      BY <1>3
    <3> QED BY <1>7, <3>1 DEF Inv, Apart
  <2>4. Emptied'
    BY <1>1, <1>2 DEF Inv, Emptied, Tables
  <2>5. BelowLoad'
    BY <1>1 DEF Inv, BelowLoad
  <2> QED BY <1>1, <2>1, <2>2, <2>3, <2>4, <2>5 DEF Inv
<1> QED BY <1>1, <1>8, <1>9

(* A resize goes on to the next bucket.                                    *)
LEMMA NextBucketInv ==
    ASSUME Inv, NextBucket
    PROVE  Inv' /\ Entries' = Entries /\ result' = result
<1>1. /\ live
      /\ new_length # 0
      /\ i < length
      /\ table[i] = <<>>
      /\ i' = i + 1
      /\ UNCHANGED <<live, length, table, elem_count, new_length, new_table,
                     result>>
  BY DEF NextBucket
<1>2. TypeOK'
  BY <1>1 DEF Inv, TypeOK
<1>3. Emptied'
  <2>1. i \in Nat /\ length' = length /\ table' = table /\ i' = i + 1
    BY <1>1 DEF Inv, TypeOK
  <2>2. ASSUME NEW j \in 0..(length - 1), j < i + 1
        PROVE  table[j] = <<>>
    <3>1. CASE j = i
      BY <1>1, <3>1
    <3>2. CASE j # i
      <4>1. j < i
        BY <2>1, <2>2, <3>2
      <4> QED BY <4>1 DEF Inv, Emptied
    <3> QED BY <3>1, <3>2
  <2> QED BY <2>1, <2>2 DEF Emptied
<1>4. Placed(table, length)' /\ Placed(new_table, new_length)'
  BY <1>1 DEF Inv, Placed
<1>5. Elements(table)' = Elements(table) /\ Elements(new_table)' = Elements(new_table)
  BY <1>1 DEF Elements
<1>6. Apart' /\ BelowLoad'
  BY <1>1, <1>5 DEF Inv, Apart, BelowLoad
<1> QED BY <1>1, <1>2, <1>3, <1>4, <1>5, <1>6 DEF Inv, Entries

(* The new table takes over: the old one is empty by then.                 *)
LEMMA ReplaceInv ==
    ASSUME Inv, ReplaceTable
    PROVE  Inv' /\ Entries' = Entries /\ result' = result
<1>1. /\ live
      /\ new_length # 0
      /\ i = length
      /\ table' = new_table
      /\ length' = new_length
      /\ new_length' = 0
      /\ new_table' = [j \in 0..(0 - 1) |-> <<>>]
      /\ i' = 0
      /\ UNCHANGED <<live, elem_count, result>>
  BY DEF ReplaceTable
<1>2. /\ length \in Nat
      /\ table \in Tables(length)
      /\ new_length \in Nat \ {0}
      /\ new_table \in Tables(new_length)
      /\ Placed(new_table, new_length)
  BY <1>1, InvTables
<1>3. Elements(table) = {}
  <2>1. \A j \in 0..(length - 1) : Len(table[j]) = 0
    BY <1>1, <1>2 DEF Inv, Emptied
  <2> QED BY <1>2, <2>1, ElementsMember
<1>4. /\ new_table' \in Tables(0)
      /\ Placed(new_table', 0)
      /\ Elements(new_table') = {}
  BY <1>1, EmptyTable
<1>5. Elements(table)' = Elements(new_table) /\ Elements(new_table)' = {}
  <2>1. /\ Elements(table)' = Elements(table')
        /\ Elements(new_table)' = Elements(new_table')
    BY DEF Elements
  <2> QED BY <1>1, <1>4, <2>1
<1>6. TypeOK'
  BY <1>1, <1>2, <1>4 DEF Inv, TypeOK, Tables
<1>7. Placed(table, length)' /\ Placed(new_table, new_length)'
  BY <1>1, <1>2, <1>4 DEF Placed
<1>8. Apart' /\ Emptied' /\ BelowLoad'
  BY <1>1, <1>5 DEF Inv, Apart, Emptied, BelowLoad
<1>9. Entries' = Entries
  BY <1>3, <1>5 DEF Entries
<1> QED BY <1>1, <1>6, <1>7, <1>8, <1>9 DEF Inv

(* delete_entry                                                            *)
LEMMA DeleteInv ==
    ASSUME Inv, NEW k \in Keys, delete_entry(k)
    PROVE  Inv' /\ Map!Remove(k)
<1> DEFINE h == Slot(k, length)
           n == get_ptr_to_elem_by_key(k)
<1>1. /\ live /\ new_length = 0 /\ i = 0
      /\ UNCHANGED <<live, length, elem_count, new_length, new_table, i>>
      /\ \/ n = 0 /\ result' = {} /\ table' = table
         \/ /\ n # 0
            /\ table' = [table EXCEPT ![h] = RemoveAt(@, n)]
            /\ result' \ {"COLLISION", "RESIZED"} = {"SUCCESS"}
            /\ result' \subseteq Flags
  BY DEF delete_entry, Idle, Inv, Flags
<1>2. /\ h \in 0..(length - 1)
      /\ n = 0 => \A e \in Elements(table) : e.key # k
      /\ n # 0 => n \in 1..Len(table[h]) /\ table[h][n].key = k
  BY PositionFacts DEF Inv
<1> HIDE DEF h, n
<1>3. /\ length \in Nat
      /\ table \in Tables(length)
      /\ Placed(table, length)
      /\ Elements(new_table) = {}
      /\ Entries = Elements(table)
  BY <1>1, InvTables
<1>4. /\ table' \in Tables(length)
      /\ Placed(table', length)
      /\ Elements(table') = Without(Elements(table), k)
      /\ result' \subseteq Flags
  <2>1. CASE n = 0
    BY <1>1, <1>2, <1>3, <2>1 DEF Without
  <2>2. CASE n # 0
    BY <1>1, <1>2, <1>3, <2>2, RemoveFromTable
  <2> QED BY <2>1, <2>2
<1>5. Elements(table)' = Without(Elements(table), k) /\ Elements(new_table)' = {}
  <2>1. /\ Elements(table)' = Elements(table')
        /\ Elements(new_table)' = Elements(new_table)
    BY <1>1 DEF Elements
  <2> QED BY <1>3, <1>4, <2>1
<1>6. Inv'
  <2>1. TypeOK'
    BY <1>1, <1>4 DEF Inv, TypeOK, Tables
  <2>2. Placed(table, length)' /\ Placed(new_table, new_length)'
    BY <1>1, <1>4 DEF Inv, Placed
  <2>3. Apart' /\ Emptied' /\ BelowLoad'
    BY <1>1, <1>5 DEF Inv, Apart, Emptied, BelowLoad
  <2> QED BY <1>1, <2>1, <2>2, <2>3 DEF Inv
<1>7. Map!Remove(k)
  <2>1. Entries' = Map!Others(k)
    BY <1>3, <1>5 DEF Entries, Map!Others, Without
  <2>2. n # 0 <=> Map!Has(k)
    <3>1. n # 0 => table[h][n] \in Elements(table)
      BY <1>2, <1>3, ElementsMember
    <3> QED BY <1>2, <1>3, <3>1 DEF Map!Has
  <2>3. (result \ {"COLLISION", "RESIZED"})' = IF n # 0 THEN {"SUCCESS"} ELSE {}
    BY <1>1
  <2> QED BY <2>1, <2>2, <2>3 DEF Map!Remove
<1> QED BY <1>6, <1>7

(* free_hash_table                                                         *)
LEMMA FreeInv ==
    ASSUME Inv, free_hash_table
    PROVE  Inv' /\ Map!Free
<1>1. /\ live /\ new_length = 0 /\ i = 0
      /\ live' = FALSE
      /\ table' = [j \in 0..(length - 1) |-> <<>>]
      /\ result' = {"FREED"}
      /\ UNCHANGED <<length, elem_count, new_length, new_table, i>>
  BY DEF free_hash_table, Idle, Inv
<1>2. /\ table' \in Tables(length)
      /\ Placed(table', length)
      /\ Elements(table') = {}
  BY <1>1, InvTables, EmptyTable
<1>3. Elements(table)' = {} /\ Elements(new_table)' = {}
  <2>1. /\ Elements(table)' = Elements(table')
        /\ Elements(new_table)' = Elements(new_table)
    BY <1>1 DEF Elements
  <2> QED BY <1>1, <1>2, <2>1, InvTables
<1>4. TypeOK'
  BY <1>1, <1>2 DEF Inv, TypeOK, Tables, Flags
<1>5. Placed(table, length)' /\ Placed(new_table, new_length)'
  BY <1>1, <1>2 DEF Inv, Placed
<1>6. Apart' /\ Emptied' /\ BelowLoad'
  BY <1>1, <1>3 DEF Inv, Apart, Emptied, BelowLoad
<1>7. Map!Free
  BY <1>1, <1>3 DEF Map!Free, Entries
<1> QED BY <1>1, <1>4, <1>5, <1>6, <1>7 DEF Inv

-----------------------------------------------------------------------------
(* Every step preserves the invariant and is a step of the map or none.    *)
LEMMA NextInv ==
    ASSUME Inv, [Next]_vars
    PROVE  Inv' /\ [Map!Next]_<<Entries, result \ {"COLLISION", "RESIZED"}>>
<1>1. CASE \E k \in Keys, v \in Values : insert_entry(k, v)
  BY <1>1, UpdateInv, AddInv DEF insert_entry, Map!Next
<1>2. CASE MoveElement \/ NextBucket \/ ReplaceTable
  BY <1>2, MoveInv, NextBucketInv, ReplaceInv
<1>3. CASE \E k \in Keys : delete_entry(k)
  BY <1>3, DeleteInv DEF Map!Next
<1>4. CASE free_hash_table
  BY <1>4, FreeInv DEF Map!Next
<1>5. CASE UNCHANGED vars
  <2>1. Entries' = Entries /\ result' = result
    BY <1>5 DEF vars, Entries, Elements
  <2>2. TypeOK' /\ Placed(table, length)' /\ Placed(new_table, new_length)'
    BY <1>5 DEF vars, Inv, TypeOK, Placed
  <2>3. Apart' /\ Emptied' /\ BelowLoad'
    BY <1>5 DEF vars, Inv, Apart, Emptied, BelowLoad, Elements
  <2> QED BY <1>5, <2>1, <2>2, <2>3 DEF vars, Inv
<1> QED BY <1>1, <1>2, <1>3, <1>4, <1>5 DEF Next

(* The invariant of the hash table holds for any keys and hash function.   *)
THEOREM HashMapSafe == Spec => []Inv
<1>1. Init => Inv
  BY InitInv
<1>2. Inv /\ [Next]_vars => Inv'
  BY NextInv
<1> QED BY <1>1, <1>2, PTL DEF Spec

(* The table keeps its type, also in the middle of a resize.               *)
THEOREM HashMapTyped == Spec => []TypeOK
<1>1. Inv => TypeOK
  BY DEF Inv
<1> QED BY <1>1, HashMapSafe, PTL

(* insert_entry, delete_entry and free_hash_table act on the chains as     *)
(* they would on a map, and a resize cannot be seen.                       *)
THEOREM HashMapImplementsMap == Spec => MapSpec
<1>1. Init => Map!Init
  BY InitInv
<1>2. Inv /\ [Next]_vars
        => [Map!Next]_<<Entries, result \ {"COLLISION", "RESIZED"}>>
  BY NextInv
<1> QED BY <1>1, <1>2, HashMapSafe, PTL DEF Spec, MapSpec, Map!Spec

(* get_ptr_to_value_by_key returns the address of the entry, NULL if there *)
(* is none.                                                                *)
THEOREM LookupsAreRight == Spec => []LookupRight
<1>1. Inv => LookupRight
  <2> SUFFICES ASSUME Inv, Idle, NEW k \in Keys, NEW v \in Values
               PROVE  get_ptr_to_value_by_key(k) = v
                         <=> [key |-> k, address |-> v] \in Entries
    BY DEF LookupRight
  <2> DEFINE h == Slot(k, length)
             n == get_ptr_to_elem_by_key(k)
             e == [key |-> k, address |-> v]
  <2>1. get_ptr_to_value_by_key(k) = IF n = 0 THEN NULL ELSE table[h][n].address
    BY DEF get_ptr_to_value_by_key
  <2>2. /\ h \in 0..(length - 1)
        /\ n = 0 => \A f \in Elements(table) : f.key # k
        /\ n # 0 => n \in 1..Len(table[h]) /\ table[h][n].key = k
    BY PositionFacts DEF Inv
  <2> HIDE DEF h, n
  <2>3. /\ Entries = Elements(table)
        /\ length \in Nat
        /\ table \in Tables(length)
        /\ Placed(table, length)
    BY InvTables DEF Idle
  <2>4. CASE n = 0
    BY <2>1, <2>2, <2>3, <2>4, HashMapAssumption
  <2>5. CASE n # 0
    <3>1. table[h][n] \in Elements(table) /\ table[h][n] \in Elem
      BY <2>2, <2>3, <2>5, ElementsMember
    <3>2. table[h][n].address = v => table[h][n] = e
      BY <2>2, <2>5, <3>1 DEF Elem
    <3>3. e \in Elements(table) => e = table[h][n]
      BY <2>2, <2>3, <2>5, <3>1, PlacedUnique
    <3> QED BY <2>1, <2>3, <2>5, <3>1, <3>2, <3>3
  <2> QED BY <2>4, <2>5
<1> QED BY <1>1, HashMapSafe, PTL

(* check_grow keeps the table below its load factor.                       *)
THEOREM LoadIsBounded == Spec => []LoadBound
<1>1. Inv => LoadBound
  BY DEF Inv, BelowLoad, LoadBound, Idle
<1> QED BY <1>1, HashMapSafe, PTL

=============================================================================
