----------------------------- MODULE DeleteProofs -----------------------------
(***************************************************************************)
(* Theorems about the deletion of files and directories, for any file      *)
(* tree, links, users and arguments and any number of sessions that change *)
(* the tree meanwhile: DELE and RMD remove only what was named, their 250  *)
(* is true, and DELE -r of a session that is alone removes everything.     *)
(***************************************************************************)
EXTENDS FilesProofs

(* What is known of a prefix, and of what follows it.                      *)
LEMMA PrefixIs ==
  ASSUME NEW S, NEW p \in Seq(S), NEW i \in 0..Len(p)
  PROVE  /\ SubSeq(p, 1, i) \in Seq(S)
         /\ Len(SubSeq(p, 1, i)) = i
         /\ \A j \in 1..i : SubSeq(p, 1, i)[j] = p[j]
<1>1. Len(p) \in Nat /\ i \in Int /\ i >= 0
  OBVIOUS
<1>2. \A j \in 1..i : p[j] \in S
  BY <1>1
<1> QED BY <1>1, <1>2, SubSeqProperties

LEMMA RestIs ==
  ASSUME NEW S, NEW p \in Seq(S), NEW i \in 0..Len(p)
  PROVE  /\ SubSeq(p, i + 1, Len(p)) \in Seq(S)
         /\ Len(SubSeq(p, i + 1, Len(p))) = Len(p) - i
         /\ \A j \in 1..(Len(p) - i) : SubSeq(p, i + 1, Len(p))[j] = p[i + j]
<1>1. Len(p) \in Nat /\ i \in Nat /\ i <= Len(p)
  OBVIOUS
<1>2. \A j \in (i + 1)..Len(p) : p[j] \in S
  BY <1>1
<1>3. /\ SubSeq(p, i + 1, Len(p)) \in Seq(S)
      /\ Len(SubSeq(p, i + 1, Len(p))) =
            IF i + 1 <= Len(p) THEN Len(p) - (i + 1) + 1 ELSE 0
      /\ \A j \in 1..(Len(p) - (i + 1) + 1) :
            SubSeq(p, i + 1, Len(p))[j] = p[i + 1 + j - 1]
  BY <1>1, <1>2, SubSeqProperties
<1> QED BY <1>1, <1>3

LEMMA WholePrefix ==
  ASSUME NEW p \in Path
  PROVE  SubSeq(p, 1, Len(p)) = p
<1>1. Len(p) \in 0..Len(p)
  BY DEF Path
<1>2. /\ SubSeq(p, 1, Len(p)) \in Path /\ Len(SubSeq(p, 1, Len(p))) = Len(p)
      /\ \A j \in 1..Len(p) : SubSeq(p, 1, Len(p))[j] = p[j]
  BY <1>1, PrefixIs DEF Path
<1> QED BY <1>2, SeqEqual DEF Path

LEMMA PrefixUnder ==
  ASSUME NEW S, NEW p \in Seq(S), NEW i \in 0..Len(p)
  PROVE  Under(SubSeq(p, 1, i), p)
<1>1. i \in Nat /\ i <= Len(p) /\ Len(p) \in Nat
  OBVIOUS
<1> DEFINE q == SubSeq(p, 1, i)
<1>2. q \in Seq(S) /\ Len(q) = i /\ \A j \in 1..i : q[j] = p[j]
  BY PrefixIs
<1> HIDE DEF q
<1>3. Under(q, p)
  BY <1>1, <1>2, UnderDef
<1> QED BY <1>3 DEF q

(* Two paths, one under the other, have the same short prefixes.           *)
LEMMA SamePrefix ==
  ASSUME NEW S, NEW p \in Seq(S), NEW q \in Seq(S), Under(p, q), NEW i \in 0..Len(p)
  PROVE  SubSeq(q, 1, i) = SubSeq(p, 1, i)
<1>1. Len(p) <= Len(q) /\ \A j \in 1..Len(p) : p[j] = q[j]
  BY UnderDef
<1>2. i \in 0..Len(q) /\ \A j \in 1..i : j \in 1..Len(p)
  BY <1>1
<1>3. /\ SubSeq(p, 1, i) \in Seq(S) /\ Len(SubSeq(p, 1, i)) = i
      /\ \A j \in 1..i : SubSeq(p, 1, i)[j] = p[j]
  BY PrefixIs
<1>4. /\ SubSeq(q, 1, i) \in Seq(S) /\ Len(SubSeq(q, 1, i)) = i
      /\ \A j \in 1..i : SubSeq(q, 1, i)[j] = q[j]
  BY <1>2, PrefixIs
<1> QED BY <1>1, <1>2, <1>3, <1>4, SeqEqual

LEMMA PrefixOfPrefix ==
  ASSUME NEW S, NEW p \in Seq(S), NEW j \in 0..Len(p), NEW i \in 0..j
  PROVE  SubSeq(SubSeq(p, 1, j), 1, i) = SubSeq(p, 1, i)
<1>1. SubSeq(p, 1, j) \in Seq(S) /\ Len(SubSeq(p, 1, j)) = j
  BY PrefixIs
<1>2. Under(SubSeq(p, 1, j), p)
  BY PrefixUnder
<1>3. i \in 0..Len(SubSeq(p, 1, j))
  BY <1>1
<1> QED BY <1>1, <1>2, <1>3, SamePrefix

(* A path is what it is under, and the rest.                               *)
LEMMA Split ==
  ASSUME NEW S, NEW p \in Seq(S), NEW q \in Seq(S), Under(p, q)
  PROVE  q = p \o SubSeq(q, Len(p) + 1, Len(q))
<1>1. Len(p) <= Len(q) /\ \A j \in 1..Len(p) : p[j] = q[j]
  BY UnderDef
<1>2. Len(p) \in 0..Len(q) /\ Len(p) \in Nat /\ Len(q) \in Nat
  BY <1>1
<1> DEFINE x == SubSeq(q, Len(p) + 1, Len(q))
<1>3. /\ x \in Seq(S) /\ Len(x) = Len(q) - Len(p)
      /\ \A j \in 1..(Len(q) - Len(p)) : x[j] = q[Len(p) + j]
  BY <1>2, RestIs
<1> HIDE DEF x
<1>4. p \o x \in Seq(S) /\ Len(p \o x) = Len(q)
  BY <1>2, <1>3
<1>5. ASSUME NEW j \in 1..Len(q)
      PROVE  (p \o x)[j] = q[j]
  <2>1. CASE j <= Len(p)
    BY <1>1, <1>2, <1>3, <2>1
  <2>2. CASE j > Len(p)
    <3>1. j - Len(p) \in 1..Len(x) /\ j \in 1..(Len(p) + Len(x))
      BY <1>2, <1>3, <2>2
    <3>2. (p \o x)[j] = x[j - Len(p)]
      BY <1>2, <1>3, <2>2, <3>1
    <3>3. x[j - Len(p)] = q[Len(p) + (j - Len(p))]
      BY <1>2, <1>3, <3>1
    <3>4. Len(p) + (j - Len(p)) = j
      BY <1>2
    <3> QED BY <3>2, <3>3, <3>4
  <2>3. j <= Len(p) \/ j > Len(p)
    BY <1>2
  <2> QED BY <2>1, <2>2, <2>3
<1>6. p \o x = q
  BY <1>4, <1>5, SeqEqual
<1> QED BY <1>6 DEF x

LEMMA UnderTrans ==
  ASSUME NEW S, NEW p \in Seq(S), NEW q \in Seq(S), NEW r \in Seq(S),
         Under(p, q), Under(q, r)
  PROVE  Under(p, r)
<1>1. Len(p) <= Len(q) /\ \A j \in 1..Len(p) : p[j] = q[j]
  BY UnderDef
<1>2. Len(q) <= Len(r) /\ \A j \in 1..Len(q) : q[j] = r[j]
  BY UnderDef
<1>3. \A j \in 1..Len(p) : j \in 1..Len(q)
  BY <1>1
<1>4. Len(p) <= Len(r)
  BY <1>1, <1>2
<1> QED BY <1>1, <1>2, <1>3, <1>4, UnderDef

LEMMA ConcatUnder ==
  ASSUME NEW S, NEW p \in Seq(S), NEW x \in Seq(S)
  PROVE  p \o x \in Seq(S) /\ Under(p, p \o x)
BY UnderSelf, UnderConcat

LEMMA FrontAppend ==
  ASSUME NEW S, NEW p \in Seq(S), NEW n \in S
  PROVE  /\ Append(p, n) \in Seq(S) /\ Append(p, n) # <<>>
         /\ Front(Append(p, n)) = p /\ Last(Append(p, n)) = n
<1> DEFINE e == Append(p, n)
<1>1. /\ e \in Seq(S) /\ e # <<>> /\ Len(e) = Len(p) + 1 /\ Len(p) \in Nat
      /\ \A i \in 1..Len(p) : e[i] = p[i]
      /\ e[Len(p) + 1] = n
  BY AppendProperties
<1> HIDE DEF e
<1>2. /\ Front(e) \in Seq(S) /\ Len(Front(e)) = Len(e) - 1
      /\ \A i \in 1..(Len(e) - 1) : Front(e)[i] = e[i]
      /\ Last(e) = e[Len(e)]
  BY <1>1, FrontLast
<1>3. Len(Front(e)) = Len(p) /\ \A i \in 1..Len(p) : Front(e)[i] = p[i]
  BY <1>1, <1>2
<1>4. Front(e) = p
  BY <1>2, <1>3, SeqEqual
<1> QED BY <1>1, <1>2, <1>4 DEF e

LEMMA FrontUnder ==
  ASSUME NEW S, NEW p \in Seq(S), p # <<>>
  PROVE  Front(p) \in Seq(S) /\ Under(Front(p), p) /\ Len(Front(p)) = Len(p) - 1
<1>1. Len(p) \in Nat /\ Len(p) >= 1
  OBVIOUS
<1> QED BY <1>1, FrontLast, UnderDef

-----------------------------------------------------------------------------
(* The tree, and what a path with a link leads to                          *)

(* What is under something that is there is there as a directory.          *)
Shaped ==
    \A q \in Paths : kind[q] # "none" =>
        \A i \in 1..(Len(q) - 1) : Kind(SubSeq(q, 1, i)) = "dir"

LEMMA LinksOf ==
  ASSUME NEW p, NEW i
  PROVE  i \in Links(p) <=> i \in 1..Len(p) /\ Kind(SubSeq(p, 1, i)) = "link"
BY DEF Links

LEMMA LinksUnder ==
  ASSUME NEW p \in Path, NEW q \in Path, Under(p, q), NEW i \in 1..Len(p)
  PROVE  i \in Links(p) <=> i \in Links(q)
<1>1. Len(p) <= Len(q) /\ Len(p) \in Nat /\ Len(q) \in Nat
  BY UnderDef DEF Path
<1>2. i \in 1..Len(q) /\ i \in 0..Len(p)
  BY <1>1
<1>3. SubSeq(q, 1, i) = SubSeq(p, 1, i)
  BY <1>2, SamePrefix DEF Path
<1> QED BY <1>2, <1>3, LinksOf

(* Nothing is under a link, so there is one on a path at most.             *)
LEMMA OneLink ==
  ASSUME Shaped, NEW p \in Path, NEW i \in Links(p), NEW j \in Links(p)
  PROVE  i = j
<1>1. ASSUME NEW m \in Links(p), NEW n \in Links(p), m < n
      PROVE  FALSE
  <2> DEFINE q == SubSeq(p, 1, n)
  <2>1. /\ m \in 1..Len(p) /\ n \in 1..Len(p) /\ Len(p) \in Nat
        /\ Kind(SubSeq(p, 1, m)) = "link" /\ Kind(q) = "link"
    BY LinksOf DEF Path
  <2>2. Len(q) = n /\ SubSeq(q, 1, m) = SubSeq(p, 1, m)
    <3>1. n \in 0..Len(p) /\ m \in 0..n
      BY <1>1, <2>1
    <3> QED BY <3>1, PrefixIs, PrefixOfPrefix DEF Path
  <2> HIDE DEF q
  <2>3. q \in Paths /\ kind[q] = "link"
    BY <2>1 DEF Kind
  <2>4. m \in 1..(Len(q) - 1)
    BY <1>1, <2>1, <2>2
  <2>5. Kind(SubSeq(q, 1, m)) = "dir"
    BY <2>3, <2>4 DEF Shaped
  <2> QED BY <2>1, <2>2, <2>5
<1>2. i \in Int /\ j \in Int
  BY LinksOf DEF Path
<1>3. ~(i < j) /\ ~(j < i)
  BY <1>1
<1> QED BY <1>2, <1>3

LEMMA ResolveLink ==
  ASSUME NEW s, Shaped, LinksKept, conn[s].root \in Seq(Name),
         NEW p \in Path, NEW i \in Links(p)
  PROVE  /\ LinkTo[SubSeq(p, 1, i)] \in Path
         /\ Resolve(s, p) = conn[s].root \o LinkTo[SubSeq(p, 1, i)] \o SubSeq(p, i + 1, Len(p))
<1>1. (CHOOSE j \in Links(p) : TRUE) \in Links(p)
  OBVIOUS
<1>2. (CHOOSE j \in Links(p) : TRUE) = i
  BY <1>1, OneLink
<1>3. SubSeq(p, 1, i) \in DOMAIN LinkTo
  BY LinksOf DEF LinksKept, Kind
<1>4. LinkTo[SubSeq(p, 1, i)] \in Path
  BY <1>3, FilesAssumption, NamePath
<1>5. Links(p) # {}
  OBVIOUS
<1> QED BY <1>2, <1>4, <1>5 DEF Resolve

(* If no link is met below p, what is under p is under what p leads to.    *)
LEMMA ResolveUnder ==
  ASSUME NEW s, Shaped, LinksKept, conn[s].root \in Seq(Name),
         NEW p \in Path, NEW q \in Path, Under(p, q), Links(q) \subseteq 1..Len(p)
  PROVE  Resolve(s, q) = Resolve(s, p) \o SubSeq(q, Len(p) + 1, Len(q))
<1>1. Len(p) <= Len(q) /\ Len(p) \in Nat /\ Len(q) \in Nat
  BY UnderDef DEF Path
<1>2. CASE Links(q) = {}
  <2>1. Links(p) = {}
    <3> SUFFICES ASSUME NEW i \in Links(p) PROVE FALSE
      OBVIOUS
    <3>1. i \in 1..Len(p)
      BY LinksOf
    <3> QED BY <1>2, <3>1, LinksUnder
  <2>2. q = p \o SubSeq(q, Len(p) + 1, Len(q))
    BY Split DEF Path
  <2> QED BY <1>2, <2>1, <2>2 DEF Resolve
<1>3. CASE Links(q) # {}
  <2>1. PICK i \in Links(q) : i \in 1..Len(p)
    BY <1>3
  <2>2. i \in Links(p)
    BY <2>1, LinksUnder
  <2> DEFINE r == conn[s].root
             l == LinkTo[SubSeq(p, 1, i)]
             x == SubSeq(p, i + 1, Len(p))
             y == SubSeq(q, Len(p) + 1, Len(q))
             z == SubSeq(q, i + 1, Len(q))
  <2>3. SubSeq(q, 1, i) = SubSeq(p, 1, i)
    <3>1. i \in 0..Len(p)
      BY <1>1, <2>1
    <3> QED BY <3>1, SamePrefix DEF Path
  <2>4. Resolve(s, p) = r \o l \o x /\ l \in Path
    BY <2>2, ResolveLink
  <2>5. Resolve(s, q) = r \o l \o z
    BY <2>1, <2>3, ResolveLink
  <2>6. x \in Path /\ y \in Path /\ z \in Path
    <3>1. i \in 0..Len(p) /\ Len(p) \in 0..Len(q) /\ i \in 0..Len(q)
      BY <1>1, <2>1
    <3> QED BY <3>1, RestIs DEF Path
  <2>7. z = x \o y
    <3>1. /\ i \in 0..Len(p) /\ Len(p) \in 0..Len(q) /\ i \in 0..Len(q)
          /\ i \in Nat
      BY <1>1, <2>1
    <3>2. Len(x) = Len(p) - i /\ \A j \in 1..(Len(p) - i) : x[j] = p[i + j]
      BY <3>1, RestIs DEF Path
    <3>3. Len(y) = Len(q) - Len(p) /\ \A j \in 1..(Len(q) - Len(p)) : y[j] = q[Len(p) + j]
      BY <3>1, RestIs DEF Path
    <3>4. Len(z) = Len(q) - i /\ \A j \in 1..(Len(q) - i) : z[j] = q[i + j]
      BY <3>1, RestIs DEF Path
    <3>5. \A j \in 1..Len(p) : p[j] = q[j]
      BY UnderDef DEF Path
    <3> HIDE DEF x, y, z
    <3>6. /\ x \o y \in Path /\ Len(x \o y) = Len(x) + Len(y)
          /\ \A j \in 1..(Len(x) + Len(y)) : (x \o y)[j] = IF j <= Len(x) THEN x[j] ELSE y[j - Len(x)]
      BY <2>6, ConcatProperties DEF Path
    <3>7. Len(x \o y) = Len(z)
      BY <1>1, <3>1, <3>2, <3>3, <3>4, <3>6
    <3>8. ASSUME NEW j \in 1..Len(x \o y)
          PROVE  (x \o y)[j] = z[j]
      <4>1. j \in Int /\ j >= 1 /\ j <= Len(q) - i
        BY <1>1, <3>1, <3>4, <3>7
      <4>2. z[j] = q[i + j]
        BY <3>4, <4>1
      <4>3. CASE j <= Len(p) - i
        <5>1. (x \o y)[j] = x[j]
          BY <3>2, <3>6, <4>3
        <5>2. x[j] = p[i + j] /\ i + j \in 1..Len(p)
          BY <1>1, <3>1, <3>2, <4>1, <4>3
        <5> QED BY <3>5, <4>2, <5>1, <5>2
      <4>4. CASE ~(j <= Len(p) - i)
        <5>1. (x \o y)[j] = y[j - Len(x)]
          BY <3>2, <3>6, <4>4
        <5>2. j - Len(x) \in 1..(Len(q) - Len(p)) /\ Len(p) + (j - Len(x)) = i + j
          BY <1>1, <3>1, <3>2, <4>1, <4>4
        <5>3. y[j - Len(x)] = q[Len(p) + (j - Len(x))]
          BY <3>3, <5>2
        <5> QED BY <4>2, <5>1, <5>2, <5>3
      <4> QED BY <4>3, <4>4
    <3> DEFINE w == x \o y
               S == Name \cup {None}
    <3>9. w \in Seq(S) /\ z \in Seq(S) /\ Len(w) = Len(z) /\ \A j \in 1..Len(w) : w[j] = z[j]
      BY <2>6, <3>6, <3>7, <3>8, Zenon DEF Path
    <3> HIDE DEF w, S
    <3>10. w = z
      BY <3>9, SeqEqual, Zenon
    <3> QED BY <3>10 DEF w
  <2>8. r \in Path
    BY NamePath
  <2> HIDE DEF r, l, x, y, z
  <2>9. (r \o l) \in Path
    BY <2>4, <2>8, ConcatUnder DEF Path
  <2>10. (r \o l) \o (x \o y) = ((r \o l) \o x) \o y
    <3> DEFINE h == r \o l
    <3>1. h \in Seq(Name \cup {None}) /\ x \in Seq(Name \cup {None})
          /\ y \in Seq(Name \cup {None})
      BY <2>6, <2>9 DEF Path
    <3> HIDE DEF h
    <3>2. (h \o x) \o y = h \o (x \o y)
      BY <3>1, ConcatAssociative, SMTT(30)
    <3> QED BY <3>2 DEF h
  <2> QED BY <2>4, <2>5, <2>7, <2>10 DEF y
<1> QED BY <1>2, <1>3

(* What follows on a path under p.                                         *)
LEMMA RestType ==
  ASSUME NEW p \in Path, NEW e \in Path, e # <<>>, Under(p, Front(e))
  PROVE  SubSeq(e, Len(p) + 1, Len(e)) \in Path
<1>1. Front(e) \in Path /\ Len(Front(e)) = Len(e) - 1 /\ Len(e) \in Nat
  BY FrontUnder DEF Path
<1>2. Len(p) <= Len(Front(e)) /\ Len(p) \in Nat
  BY <1>1, UnderDef DEF Path
<1>3. Len(p) \in 0..Len(e)
  BY <1>1, <1>2
<1> QED BY <1>3, RestIs DEF Path

LEMMA AppendRest ==
  ASSUME NEW S, NEW p \in Seq(S), NEW e \in Seq(S), e # <<>>, Under(p, Front(e))
  PROVE  /\ SubSeq(Front(e), Len(p) + 1, Len(Front(e))) \in Seq(S)
         /\ Append(SubSeq(Front(e), Len(p) + 1, Len(Front(e))), Last(e))
               = SubSeq(e, Len(p) + 1, Len(e))
<1> DEFINE d == Front(e)
           x == SubSeq(d, Len(p) + 1, Len(d))
           y == SubSeq(e, Len(p) + 1, Len(e))
<1>1. /\ d \in Seq(S) /\ Len(d) = Len(e) - 1
      /\ \A i \in 1..(Len(e) - 1) : d[i] = e[i]
      /\ Last(e) \in S /\ Last(e) = e[Len(e)]
  BY FrontLast
<1> HIDE DEF d
<1>2. Len(p) <= Len(d) /\ Len(p) \in Nat /\ Len(d) \in Nat /\ Len(e) \in Nat
  BY <1>1, UnderDef DEF d
<1>3. Len(p) \in 0..Len(d) /\ Len(p) \in 0..Len(e)
  BY <1>1, <1>2
<1>4. /\ x \in Seq(S) /\ Len(x) = Len(d) - Len(p)
      /\ \A j \in 1..(Len(d) - Len(p)) : x[j] = d[Len(p) + j]
  BY <1>1, <1>3, RestIs
<1>5. /\ y \in Seq(S) /\ Len(y) = Len(e) - Len(p)
      /\ \A j \in 1..(Len(e) - Len(p)) : y[j] = e[Len(p) + j]
  BY <1>3, RestIs
<1> HIDE DEF x, y
<1>6. /\ Append(x, Last(e)) \in Seq(S) /\ Len(Append(x, Last(e))) = Len(x) + 1
      /\ \A j \in 1..Len(x) : Append(x, Last(e))[j] = x[j]
      /\ Append(x, Last(e))[Len(x) + 1] = Last(e)
  BY <1>1, <1>4, AppendProperties
<1>7. Len(Append(x, Last(e))) = Len(y)
  BY <1>1, <1>2, <1>4, <1>5, <1>6
<1>8. ASSUME NEW j \in 1..Len(Append(x, Last(e)))
      PROVE  Append(x, Last(e))[j] = y[j]
  <2>1. j \in Int /\ j >= 1 /\ j <= Len(e) - Len(p)
    BY <1>2, <1>5, <1>7
  <2>2. y[j] = e[Len(p) + j]
    BY <1>5, <2>1
  <2>3. CASE j <= Len(x)
    <3>1. Len(p) + j \in 1..(Len(e) - 1) /\ j \in 1..(Len(d) - Len(p))
      BY <1>1, <1>2, <1>4, <2>1, <2>3
    <3>2. x[j] = d[Len(p) + j] /\ j \in 1..Len(x)
      BY <1>4, <3>1
    <3> QED BY <1>1, <1>6, <2>2, <3>1, <3>2
  <2>4. CASE ~(j <= Len(x))
    <3>1. j = Len(x) + 1 /\ Len(p) + j = Len(e)
      BY <1>1, <1>2, <1>4, <2>1, <2>4
    <3> QED BY <1>1, <1>6, <2>2, <3>1
  <2> QED BY <2>3, <2>4
<1>9. Append(x, Last(e)) = y
  BY <1>5, <1>6, <1>7, <1>8, SeqEqual
<1> QED BY <1>4, <1>9 DEF x, y, d

LEMMA AppendConcat ==
  ASSUME NEW a \in Path, NEW b \in Path, NEW n \in Name \cup {None}
  PROVE  Append(a \o b, n) = a \o Append(b, n)
<1> DEFINE S == Name \cup {None}
<1>1. a \in Seq(S) /\ b \in Seq(S) /\ n \in S
  BY DEF Path
<1> HIDE DEF S
<1>2. <<n>> \in Seq(S)
  BY <1>1
<1>3. a \o b \in Seq(S)
  BY <1>1, ConcatProperties, Zenon
<1>4. Append(b, n) = b \o <<n>>
  BY <1>1, AppendIsConcat, Zenon
<1>5. Append(a \o b, n) = (a \o b) \o <<n>>
  BY <1>1, <1>3, AppendIsConcat, Zenon
<1>6. (a \o b) \o <<n>> = a \o (b \o <<n>>)
  BY <1>1, <1>2, ConcatAssociative, SMTT(30)
<1> QED BY <1>4, <1>5, <1>6, Zenon

(* The same for the end of a path, which is not followed.                  *)
LEMMA LResolveUnder ==
  ASSUME NEW s, Shaped, LinksKept, conn[s].root \in Seq(Name),
         NEW p \in Path, NEW e \in Path, e # <<>>,
         Under(p, Front(e)), Links(Front(e)) \subseteq 1..Len(p)
  PROVE  LResolve(s, e) = Resolve(s, p) \o SubSeq(e, Len(p) + 1, Len(e))
<1> DEFINE d == Front(e)
           x == SubSeq(d, Len(p) + 1, Len(d))
           r == Resolve(s, p)
<1>1. d \in Path /\ Last(e) \in Name \cup {None}
  BY FrontLast DEF Path
<1>2. Resolve(s, d) = r \o x
  BY <1>1, ResolveUnder
<1>3. r \in Path
  BY ResolveType
<1>4. x \in Path /\ Append(x, Last(e)) = SubSeq(e, Len(p) + 1, Len(e))
  BY AppendRest DEF Path
<1>5. LResolve(s, e) = Append(Resolve(s, d), Last(e))
  BY DEF LResolve
<1> HIDE DEF d, x, r
<1>6. Append(r \o x, Last(e)) = r \o Append(x, Last(e))
  BY <1>1, <1>3, <1>4, AppendConcat
<1> QED BY <1>2, <1>4, <1>5, <1>6 DEF r

(* At the end of a path there is no link: then nothing is followed there.  *)
LEMMA LResolveSame ==
  ASSUME NEW s, Shaped, LinksKept, conn[s].root \in Seq(Name),
         NEW p \in Path, Len(p) \notin Links(p)
  PROVE  LResolve(s, p) = Resolve(s, p)
<1>1. CASE p = <<>>
  <2>1. Links(p) = {}
    BY <1>1, LinksOf
  <2> QED BY <1>1, <2>1 DEF LResolve, Resolve
<1>2. CASE p # <<>>
  <2> DEFINE d == Front(p)
  <2>1. d \in Path /\ Under(d, p) /\ Len(d) = Len(p) - 1 /\ Len(p) \in Nat
    BY <1>2, FrontUnder DEF Path
  <2>2. Links(p) \subseteq 1..Len(d)
    <3> SUFFICES ASSUME NEW i \in Links(p) PROVE i \in 1..Len(d)
      OBVIOUS
    <3>1. i \in 1..Len(p) /\ i # Len(p)
      BY LinksOf
    <3> QED BY <2>1, <3>1
  <2>3. Links(d) \subseteq 1..Len(d) /\ Under(d, d)
    BY <2>1, LinksOf, UnderSelf DEF Path
  <2>4. Resolve(s, p) = Resolve(s, d) \o SubSeq(p, Len(d) + 1, Len(p))
    BY <2>1, <2>2, ResolveUnder
  <2>5. LResolve(s, p) = Resolve(s, d) \o SubSeq(p, Len(d) + 1, Len(p))
    BY <1>2, <2>1, <2>3, LResolveUnder
  <2> QED BY <2>4, <2>5
<1> QED BY <1>1, <1>2

(* There is a link at the end: then there is none before it.               *)
LEMMA LResolveLink ==
  ASSUME NEW s, Shaped, NEW p \in Path,
         Len(p) \in Links(p) \/ Links(p) = {}
  PROVE  LResolve(s, p) = p
<1>1. CASE p = <<>>
  BY <1>1 DEF LResolve
<1>2. CASE p # <<>>
  <2> DEFINE d == Front(p)
  <2>1. d \in Path /\ Under(d, p) /\ Len(d) = Len(p) - 1 /\ Len(p) \in Nat
        /\ Append(d, Last(p)) = p
    BY <1>2, FrontUnder, FrontLast DEF Path
  <2>2. Links(d) = {}
    <3> SUFFICES ASSUME NEW i \in Links(d) PROVE FALSE
      OBVIOUS
    <3>1. i \in 1..Len(d) /\ i \in Links(p)
      BY <2>1, LinksOf, LinksUnder
    <3>2. i = Len(p)
      BY <3>1, OneLink
    <3> QED BY <2>1, <3>1, <3>2
  <2> QED BY <1>2, <2>1, <2>2 DEF LResolve, Resolve
<1> QED BY <1>1, <1>2

-----------------------------------------------------------------------------
(* The types of the variables FilesInv does not speak of                   *)

Codes == {0, 213, 250, 257, 550, 553}

OtherTypes ==
    /\ budget \in 0..MaxCommands
    /\ reply \in [Sessions -> Codes]
    /\ goal \in [Sessions -> Path]
    /\ disturbed \in [Sessions -> BOOLEAN]

(* The step of one session.                                                *)
Act(s) ==
    \/ LoginStep(s)
    \/ handle_dele_command(s)
    \/ cftp_mkd_authenticated_action(s)
    \/ cftp_rmd_authenticated_action(s)
    \/ cftp_cwd_authenticated_action(s)
    \/ cftp_size_authenticated_action(s)
    \/ handle_mdtm_command(s)
    \/ cftp_pwd_authenticated_action(s)
    \/ StorOpen(s)
    \/ Call(s)

LEMMA EmptyPath == <<>> \in Path
BY DEF Path

LEMMA AnswerTypes ==
  ASSUME OtherTypes, NEW s \in Sessions, NEW code \in Codes, Answer(s, code)
  PROVE  reply' \in [Sessions -> Codes] /\ goal' \in [Sessions -> Path]
BY EmptyPath DEF OtherTypes, Answer, Codes

LEMMA GotoTypes ==
  ASSUME OtherTypes, NEW s \in Sessions, NEW a, NEW e, Goto(s, a, e)
  PROVE  reply' \in [Sessions -> Codes] /\ goal' \in [Sessions -> Path]
BY DEF OtherTypes, Goto, Silent, Codes

LEMMA DisturbedTypes ==
  ASSUME OtherTypes, NEW s \in Sessions,
         NoChange(s) \/ \E q, k : Change(s, q, k)
  PROVE  disturbed' \in [Sessions -> BOOLEAN]
<1>1. CASE NoChange(s)
  BY <1>1 DEF NoChange, OtherTypes
<1>2. CASE \E q, k : Change(s, q, k)
  <2>1. disturbed' = [t \in Sessions |-> IF t = s THEN disturbed[s] /\ at'[s] # "idle"
                                         ELSE at[t] # "idle"]
    BY <1>2 DEF Change
  <2> QED BY <2>1 DEF OtherTypes
<1> QED BY <1>1, <1>2

LEMMA ReadyTypes ==
  ASSUME OtherTypes, NEW s \in Sessions, Ready(s)
  PROVE  budget' \in 0..MaxCommands
BY FilesAssumption DEF OtherTypes, Ready

(* The actions of a command that has begun.                                *)
LEMMA CallTypes ==
  ASSUME FilesInv, OtherTypes, NEW s \in Sessions, Call(s)
  PROVE  OtherTypes'
<1>1. budget' \in 0..MaxCommands
  BY DEF Call, OtherTypes
<1>2. \/ \E code \in Codes : Answer(s, code)
      \/ \E a, e : Goto(s, a, e)
  <2>1. 250 \in Codes /\ 257 \in Codes /\ 550 \in Codes
    BY DEF Codes
  <2>2. ASSUME NEW ok, Deleted(s, ok)
        PROVE  \E code \in Codes : Answer(s, code)
    BY <2>1, <2>2 DEF Deleted
  <2>3. CASE Stat(s)
    <3>1. CASE DeleStat(s)
      BY <2>1, <2>2, <3>1 DEF DeleStat
    <3>2. CASE MkdStat(s)
      BY <2>1, <3>2 DEF MkdStat
    <3>3. CASE RmdStat(s)
      BY <2>1, <3>3 DEF RmdStat
    <3>4. CASE CwdStat(s)
      BY <2>1, <3>4 DEF CwdStat
    <3> QED BY <2>3, <3>1, <3>2, <3>3, <3>4 DEF Stat
  <2>4. CASE Unlink(s)
    BY <2>1, <2>2, <2>4, Zenon DEF Unlink
  <2>5. CASE Mkdir(s)
    BY <2>1, <2>5 DEF Mkdir
  <2>6. CASE Rmd(s)
    BY <2>1, <2>6 DEF Rmd
  <2>7. CASE Chdir(s)
    BY <2>1, <2>7 DEF Chdir
  <2>8. CASE OpenDir(s)
    BY <2>1, <2>2, <2>8, Zenon DEF OpenDir
  <2>9. CASE ReadDir(s)
    BY <2>9, Zenon DEF ReadDir
  <2>10. CASE Lstat(s)
    BY <2>10, Zenon DEF Lstat
  <2>11. CASE UnlinkEntry(s)
    BY <2>11, Zenon DEF UnlinkEntry
  <2>12. CASE Rmdir(s)
    BY <2>2, <2>12, Zenon DEF Rmdir, Return
  <2> QED BY <2>3, <2>4, <2>5, <2>6, <2>7, <2>8, <2>9, <2>10, <2>11, <2>12 DEF Call
<1>3. reply' \in [Sessions -> Codes] /\ goal' \in [Sessions -> Path]
  BY <1>2, AnswerTypes, GotoTypes
<1>4. disturbed' \in [Sessions -> BOOLEAN]
  <2>1. CASE disturbed' = [disturbed EXCEPT ![s] = FALSE]
    BY <2>1 DEF OtherTypes
  <2>2. CASE NoChange(s) \/ \E q, k : Change(s, q, k)
    BY <2>2, DisturbedTypes
  <2>3. \/ disturbed' = [disturbed EXCEPT ![s] = FALSE]
        \/ NoChange(s)
        \/ \E q, k : Change(s, q, k)
    <3>1. CASE Unlink(s) \/ Mkdir(s) \/ Rmd(s) \/ UnlinkEntry(s) \/ Rmdir(s)
      BY <3>1, Zenon DEF Unlink, Mkdir, Rmd, UnlinkEntry, Rmdir
    <3>2. CASE Stat(s) \/ OpenDir(s) \/ ReadDir(s) \/ Lstat(s)
      BY <3>2, Zenon DEF Stat, OpenDir, ReadDir, Lstat
    <3>3. CASE Chdir(s)
      BY <3>3, Zenon DEF Chdir
    <3> QED BY <3>1, <3>2, <3>3 DEF Call
  <2> QED BY <2>1, <2>2, <2>3
<1> QED BY <1>1, <1>3, <1>4 DEF OtherTypes

LEMMA BeginTypes ==
  ASSUME FilesInv, OtherTypes, NEW s \in Sessions, NEW cmd, NEW f, NEW r,
         Begin(s, cmd, f, r)
  PROVE  OtherTypes'
<1>1. budget' \in 0..MaxCommands /\ conn[s].authenticated
  BY ReadyTypes DEF Begin, Ready
<1>2. CASE Answer(s, Unsafe(cmd)) /\ NoChange(s)
  <2>1. Unsafe(cmd) \in Codes
    BY DEF Unsafe, Codes
  <2> QED BY <1>1, <1>2, <2>1, AnswerTypes, DisturbedTypes DEF OtherTypes
<1>3. CASE \E n \in Named(s) : /\ goal' = [goal EXCEPT ![s] = Resolve(s, n.path)]
                               /\ Silent /\ UNCHANGED disturbed
  <2>1. PICK n \in Named(s) : /\ goal' = [goal EXCEPT ![s] = Resolve(s, n.path)]
                              /\ Silent /\ UNCHANGED disturbed
    BY <1>3
  <2>2. n.path \in Path
    BY <1>1, NamedIn
  <2>3. Resolve(s, n.path) \in Path
    BY <2>2, Session1, ResolveType
  <2> QED BY <1>1, <2>1, <2>3 DEF OtherTypes, Silent, Codes
<1> QED BY <1>2, <1>3 DEF Begin

LEMMA RepliesTypes ==
  ASSUME FilesInv, OtherTypes, NEW s \in Sessions,
         \/ cftp_size_authenticated_action(s)
         \/ handle_mdtm_command(s)
         \/ cftp_pwd_authenticated_action(s)
  PROVE  OtherTypes'
<1>1. NoChange(s) /\ Ready(s)
  BY DEF cftp_size_authenticated_action, handle_mdtm_command, cftp_pwd_authenticated_action
<1>2. \E code \in Codes : Answer(s, code)
  <2>1. CASE cftp_size_authenticated_action(s)
    BY <2>1 DEF cftp_size_authenticated_action, FileReply, Codes
  <2>2. CASE handle_mdtm_command(s)
    BY <2>2 DEF handle_mdtm_command, FileReply, Codes
  <2>3. CASE cftp_pwd_authenticated_action(s)
    BY <2>3 DEF cftp_pwd_authenticated_action, Codes
  <2> QED BY <2>1, <2>2, <2>3
<1> QED BY <1>1, <1>2, ReadyTypes, AnswerTypes, DisturbedTypes DEF OtherTypes

LEMMA ActTypes ==
  ASSUME FilesInv, OtherTypes, NEW s \in Sessions, Act(s)
  PROVE  OtherTypes'
<1>1. CASE LoginStep(s)
  BY <1>1 DEF LoginStep, Silent, OtherTypes, Codes
<1>2. CASE \/ handle_dele_command(s)
           \/ cftp_mkd_authenticated_action(s)
           \/ cftp_rmd_authenticated_action(s)
           \/ cftp_cwd_authenticated_action(s)
  BY <1>2, BeginTypes DEF handle_dele_command, cftp_mkd_authenticated_action,
     cftp_rmd_authenticated_action, cftp_cwd_authenticated_action
<1>3. CASE \/ cftp_size_authenticated_action(s)
           \/ handle_mdtm_command(s)
           \/ cftp_pwd_authenticated_action(s)
  BY <1>3, RepliesTypes
<1>4. CASE StorOpen(s)
  <2>1. \E q, k : Change(s, q, k)
    BY <1>4 DEF StorOpen
  <2>2. disturbed' \in [Sessions -> BOOLEAN]
    BY <2>1, DisturbedTypes
  <2>3. budget' \in 0..MaxCommands
    BY <1>4, ReadyTypes DEF StorOpen
  <2> QED BY <1>4, <2>2, <2>3 DEF StorOpen, Silent, OtherTypes, Codes
<1>5. CASE Call(s)
  BY <1>5, CallTypes
<1> QED BY <1>1, <1>2, <1>3, <1>4, <1>5 DEF Act

-----------------------------------------------------------------------------
(* What a step of one session does to the others and to the tree           *)

(* The command of session t is where it was.                               *)
Kept(t) ==
    /\ at'[t] = at[t]
    /\ entry'[t] = entry[t]
    /\ stack'[t] = stack[t]
    /\ op'[t] = op[t]
    /\ goal'[t] = goal[t]

(* Something comes to be in a directory.                                   *)
Created(q) ==
    /\ q \in Paths /\ q # <<>>
    /\ kind[q] = "none"
    /\ Kind(Front(q)) = "dir"
    /\ \E k \in {"file", "dir"} : kind' = [kind EXCEPT ![q] = k]

(* Something is removed that is no directory, or an empty one.             *)
Removed(q) ==
    /\ q \in Paths /\ q # <<>>
    /\ kind[q] # "none"
    /\ kind[q] # "dir" \/ Names(q) = {}
    /\ kind' = [kind EXCEPT ![q] = "none"]

Effect(s) ==
    /\ \A t \in Sessions : at[t] # "idle" => conn'[t].root = conn[t].root
    /\ \A t \in Sessions \ {s} : at[t] # "idle" /\ ~disturbed'[t] => ~disturbed[t]
    /\ \/ kind' = kind
       \/ /\ \E q \in Paths : Created(q) \/ Removed(q)
          /\ \A t \in Sessions \ {s} : at[t] # "idle" => disturbed'[t]

LEMMA AnswerKept ==
  ASSUME FilesInv, OtherTypes, NEW s \in Sessions, NEW code, Answer(s, code),
         NEW t \in Sessions \ {s}
  PROVE  Kept(t)
BY DEF FilesInv, Types, OtherTypes, Answer, Kept

LEMMA GotoKept ==
  ASSUME FilesInv, OtherTypes, NEW s \in Sessions, NEW a, NEW e, Goto(s, a, e),
         UNCHANGED stack \/ \E k : stack' = [stack EXCEPT ![s] = k],
         NEW t \in Sessions \ {s}
  PROVE  Kept(t)
<1>1. stack'[t] = stack[t]
  BY DEF FilesInv, Types
<1> QED BY <1>1 DEF FilesInv, Types, OtherTypes, Goto, Kept

LEMMA CallKept ==
  ASSUME FilesInv, OtherTypes, NEW s \in Sessions, Call(s), NEW t \in Sessions \ {s}
  PROVE  Kept(t)
<1>1. \/ \E code : Answer(s, code)
      \/ \E a, e : Goto(s, a, e) /\ UNCHANGED stack
      \/ \E a, e : Goto(s, a, e) /\ \E k : stack' = [stack EXCEPT ![s] = k]
  <2>1. CASE Stat(s)
    <3>1. CASE DeleStat(s)
      BY <3>1 DEF DeleStat, Deleted
    <3>2. CASE MkdStat(s)
      BY <3>2, Zenon DEF MkdStat
    <3>3. CASE RmdStat(s)
      BY <3>3, Zenon DEF RmdStat
    <3>4. CASE CwdStat(s)
      BY <3>4, Zenon DEF CwdStat
    <3> QED BY <2>1, <3>1, <3>2, <3>3, <3>4, Zenon DEF Stat
  <2>2. CASE Unlink(s) \/ Mkdir(s) \/ Rmd(s) \/ Chdir(s)
    <3>1. CASE Unlink(s)
      BY <3>1 DEF Unlink, Deleted
    <3>2. CASE Mkdir(s)
      BY <3>2, Zenon DEF Mkdir
    <3>3. CASE Rmd(s)
      BY <3>3 DEF Rmd
    <3>4. CASE Chdir(s)
      BY <3>4, Zenon DEF Chdir
    <3> QED BY <2>2, <3>1, <3>2, <3>3, <3>4
  <2>3. CASE OpenDir(s)
    <3> DEFINE k == Append(stack[s], [path |-> entry[s], seen |-> {},
                                      old |-> Names(Resolve(s, entry[s]))])
    <3>1. CASE stat(s, entry[s]) = "dir"
      <4>1. stack' = [stack EXCEPT ![s] = k] /\ Goto(s, "readdir", <<>>)
        BY <2>3, <3>1 DEF OpenDir
      <4> QED BY <4>1
    <3>2. CASE stat(s, entry[s]) # "dir"
      BY <2>3, <3>2 DEF OpenDir, Deleted
    <3> QED BY <3>1, <3>2
  <2>4. CASE ReadDir(s)
    <3> DEFINE top == Last(stack[s])
               k(n) == Append(Front(stack[s]), [top EXCEPT !.old = @ \ {n},
                                                          !.seen = @ \cup {n}])
    <3>1. \/ \E n : stack' = [stack EXCEPT ![s] = k(n)] /\ Goto(s, "lstat", Append(top.path, n))
          \/ stack' = stack /\ Goto(s, "rmdir", top.path)
      BY <2>4 DEF ReadDir
    <3> HIDE DEF k
    <3> QED BY <3>1, Zenon
  <2>5. CASE Lstat(s) \/ UnlinkEntry(s)
    <3>1. CASE Lstat(s)
      BY <3>1, Zenon DEF Lstat
    <3>2. CASE UnlinkEntry(s)
      BY <3>2, Zenon DEF UnlinkEntry
    <3> QED BY <2>5, <3>1, <3>2
  <2>6. CASE Rmdir(s)
    <3>1. CASE Return(s)
      <4>1. \/ Deleted(s, TRUE)
            \/ stack' = [stack EXCEPT ![s] = Front(@)] /\ Goto(s, "readdir", <<>>)
        BY <3>1, Zenon DEF Return
      <4>2. [stack EXCEPT ![s] = Front(@)] = [stack EXCEPT ![s] = Front(stack[s])]
        OBVIOUS
      <4> QED BY <4>1, <4>2, Zenon DEF Deleted
    <3>2. CASE Deleted(s, FALSE)
      BY <3>2 DEF Deleted
    <3> QED BY <2>6, <3>1, <3>2 DEF Rmdir
  <2> QED BY <2>1, <2>2, <2>3, <2>4, <2>5, <2>6 DEF Call
<1> QED BY <1>1, AnswerKept, GotoKept

LEMMA ActKept ==
  ASSUME FilesInv, OtherTypes, NEW s \in Sessions, Act(s), NEW t \in Sessions \ {s}
  PROVE  Kept(t)
<1>1. CASE LoginStep(s) \/ StorOpen(s)
  BY <1>1 DEF LoginStep, StorOpen, Kept
<1>2. ASSUME NEW cmd, NEW f, NEW r, Begin(s, cmd, f, r)
      PROVE  Kept(t)
  <2>1. CASE Answer(s, Unsafe(cmd))
    BY <2>1, AnswerKept
  <2>2. CASE \E n \in Named(s) :
                /\ op' = [op EXCEPT ![s] = [cmd |-> cmd, path |-> n.path,
                                            force |-> f, recursive |-> r]]
                /\ at' = [at EXCEPT ![s] = "stat"]
                /\ entry' = [entry EXCEPT ![s] = n.path]
                /\ goal' = [goal EXCEPT ![s] = Resolve(s, n.path)]
                /\ UNCHANGED stack
    BY <2>2 DEF FilesInv, Types, OtherTypes, Kept
  <2> QED BY <1>2, <2>1, <2>2 DEF Begin
<1>3. CASE \/ handle_dele_command(s)
           \/ cftp_mkd_authenticated_action(s)
           \/ cftp_rmd_authenticated_action(s)
           \/ cftp_cwd_authenticated_action(s)
  BY <1>2, <1>3 DEF handle_dele_command, cftp_mkd_authenticated_action,
     cftp_rmd_authenticated_action, cftp_cwd_authenticated_action
<1>4. CASE \/ cftp_size_authenticated_action(s)
           \/ handle_mdtm_command(s)
           \/ cftp_pwd_authenticated_action(s)
  BY <1>4, AnswerKept DEF cftp_size_authenticated_action, handle_mdtm_command,
     cftp_pwd_authenticated_action
<1>5. CASE Call(s)
  BY <1>5, CallKept
<1> QED BY <1>1, <1>3, <1>4, <1>5 DEF Act

LEMMA NoChangeEffect ==
  ASSUME FilesInv, OtherTypes, NEW s \in Sessions, NoChange(s)
  PROVE  Effect(s)
<1>1. kind' = kind /\ conn' = conn
  BY DEF NoChange
<1>2. \A t \in Sessions \ {s} : disturbed'[t] = disturbed[t]
  BY DEF NoChange, OtherTypes
<1> QED BY <1>1, <1>2 DEF Effect

LEMMA ChangeEffect ==
  ASSUME FilesInv, OtherTypes, NEW s \in Sessions, NEW q \in Paths, NEW k, Change(s, q, k),
         Created(q) \/ Removed(q)
  PROVE  Effect(s)
<1>1. \A t \in Sessions \ {s} : disturbed'[t] <=> at[t] # "idle"
  BY DEF Change
<1>2. ASSUME NEW t \in Sessions
      PROVE  conn'[t].root = conn[t].root
  <2>1. conn[t] \in Connection
    BY DEF FilesInv, Types
  <2>2. conn'[t] = conn[t] \/ conn'[t] = [conn[t] EXCEPT !.cwd = Gone]
    BY DEF Change
  <2> QED BY <2>1, <2>2 DEF Connection
<1>3. \E p \in Paths : Created(p) \/ Removed(p)
  OBVIOUS
<1> QED BY <1>1, <1>2, <1>3 DEF Effect

LEMMA UnlinkEffect ==
  ASSUME FilesInv, OtherTypes, NEW s \in Sessions, NEW p,
         CanUnlink(s, p) \/ CanRmdir(s, p), Change(s, LResolve(s, p), "none")
  PROVE  Removed(LResolve(s, p)) /\ Effect(s)
<1> DEFINE q == LResolve(s, p)
<1>1. /\ Kind(q) # "none" /\ q # <<>>
      /\ Kind(q) # "dir" \/ Names(q) = {}
  BY DEF CanUnlink, CanRmdir, lstat, Writable
<1> HIDE DEF q
<1>2. q \in Paths /\ kind[q] = Kind(q)
  BY <1>1 DEF Kind
<1>3. kind' = [kind EXCEPT ![q] = "none"] /\ Change(s, q, "none")
  BY DEF Change, q
<1>4. Removed(q)
  BY <1>1, <1>2, <1>3 DEF Removed
<1> QED BY <1>2, <1>3, <1>4, ChangeEffect DEF q

LEMMA CreateEffect ==
  ASSUME FilesInv, OtherTypes, NEW s \in Sessions, NEW q, NEW k \in {"file", "dir"},
         CanCreate(s, q), Change(s, q, k)
  PROVE  Effect(s)
<1>1. Created(q)
  BY DEF CanCreate, Writable, Change, Created, Kind
<1> QED BY <1>1, ChangeEffect DEF CanCreate

LEMMA ActEffect ==
  ASSUME FilesInv, OtherTypes, NEW s \in Sessions, Act(s)
  PROVE  Effect(s)
<1>1. CASE LoginStep(s)
  <2>1. at[s] = "idle" /\ UNCHANGED <<kind, disturbed>>
    BY <1>1 DEF LoginStep
  <2>2. \A t \in Sessions \ {s} : conn'[t] = conn[t]
    BY <1>1 DEF LoginStep, cftp_user_authenticated, cftp_pass_authenticated, Reconnect,
       FilesInv, Types
  <2> QED BY <2>1, <2>2 DEF Effect
<1>2. CASE StorOpen(s)
  BY <1>2, CreateEffect DEF StorOpen
<1>3. ASSUME NEW cmd, NEW f, NEW r, Begin(s, cmd, f, r)
      PROVE  Effect(s)
  <2>1. CASE UNCHANGED <<conn, kind, disturbed>>
    BY <2>1 DEF Effect
  <2> QED BY <1>3, <2>1, NoChangeEffect DEF Begin
<1>4. CASE \/ handle_dele_command(s)
           \/ cftp_mkd_authenticated_action(s)
           \/ cftp_rmd_authenticated_action(s)
           \/ cftp_cwd_authenticated_action(s)
  BY <1>3, <1>4 DEF handle_dele_command, cftp_mkd_authenticated_action,
     cftp_rmd_authenticated_action, cftp_cwd_authenticated_action
<1>5. CASE \/ cftp_size_authenticated_action(s)
           \/ handle_mdtm_command(s)
           \/ cftp_pwd_authenticated_action(s)
  BY <1>5, NoChangeEffect DEF cftp_size_authenticated_action, handle_mdtm_command,
     cftp_pwd_authenticated_action
<1>6. CASE Stat(s) \/ OpenDir(s) \/ ReadDir(s) \/ Lstat(s)
  BY <1>6, NoChangeEffect DEF Stat, OpenDir, ReadDir, Lstat
<1>7. CASE Unlink(s) \/ Rmd(s) \/ UnlinkEntry(s) \/ Rmdir(s)
  <2>1. \/ NoChange(s)
        \/ /\ CanUnlink(s, entry[s]) \/ CanRmdir(s, entry[s])
           /\ Change(s, LResolve(s, entry[s]), "none")
    BY <1>7, Zenon DEF Unlink, Rmd, UnlinkEntry, Rmdir
  <2> QED BY <2>1, NoChangeEffect, UnlinkEffect
<1>8. CASE Mkdir(s)
  <2>1. \/ NoChange(s)
        \/ CanCreate(s, LResolve(s, entry[s])) /\ Change(s, LResolve(s, entry[s]), "dir")
    BY <1>8, Zenon DEF Mkdir
  <2> QED BY <2>1, NoChangeEffect, CreateEffect
<1>9. CASE Chdir(s)
  <2>1. CASE NoChange(s)
    BY <2>1, NoChangeEffect
  <2>2. CASE /\ conn' = [conn EXCEPT ![s].cwd = Resolve(s, entry[s])]
             /\ disturbed' = [disturbed EXCEPT ![s] = FALSE]
             /\ UNCHANGED kind
    <3> DEFINE p == Resolve(s, entry[s])
    <3>1. conn' = [conn EXCEPT ![s].cwd = p] /\ conn \in [Sessions -> Connection]
      BY <2>2 DEF FilesInv, Types
    <3> HIDE DEF p
    <3>2. \A t \in Sessions : conn'[t].root = conn[t].root
      BY <3>1 DEF Connection
    <3>3. \A t \in Sessions \ {s} : disturbed'[t] = disturbed[t]
      BY <2>2 DEF OtherTypes
    <3> QED BY <2>2, <3>2, <3>3 DEF Effect
  <2> QED BY <1>9, <2>1, <2>2, Zenon DEF Chdir
<1> QED BY <1>1, <1>2, <1>4, <1>5, <1>6, <1>7, <1>8, <1>9 DEF Act, Call

-----------------------------------------------------------------------------
(* The tree stays a tree                                                   *)

LEMMA PathOf == \A q \in Paths : q \in Seq(Name) /\ q \in Path
BY FilesAssumption, NamePath

(* What is above something that is there is a directory.                   *)
LEMMA Above ==
  ASSUME Shaped, NEW p \in Path, NEW q \in Paths, kind[q] # "none",
         Under(p, q), p # q, p # <<>>
  PROVE  Kind(p) = "dir"
<1>1. Len(p) <= Len(q) /\ Len(p) \in Nat /\ Len(q) \in Nat
      /\ \A i \in 1..Len(p) : p[i] = q[i]
  BY PathOf, UnderDef DEF Path
<1>2. Len(p) # Len(q)
  BY <1>1, PathOf, SeqEqual DEF Path
<1>3. Len(p) # 0
  BY DEF Path
<1>4. Len(p) \in 1..(Len(q) - 1) /\ Len(p) \in 0..Len(p)
  BY <1>1, <1>2, <1>3
<1>5. SubSeq(q, 1, Len(p)) = SubSeq(p, 1, Len(p))
  BY <1>4, PathOf, SamePrefix DEF Path
<1>6. SubSeq(p, 1, Len(p)) = p
  BY WholePrefix
<1>7. Kind(SubSeq(q, 1, Len(p))) = "dir"
  BY <1>4 DEF Shaped
<1> QED BY <1>5, <1>6, <1>7

(* Nothing is under a file, a link or an empty directory.                  *)
LEMMA NothingBelow ==
  ASSUME Shaped, NEW p \in Path, p # <<>>, Kind(p) # "dir" \/ Names(p) = {},
         NEW q \in Paths, Under(p, q), p # q
  PROVE  kind[q] = "none"
<1> SUFFICES ASSUME kind[q] # "none" PROVE FALSE
  OBVIOUS
<1>1. Kind(p) = "dir"
  BY Above
<1>2. Names(p) = {}
  BY <1>1
<1>3. /\ Len(p) <= Len(q) /\ Len(p) \in Nat /\ Len(q) \in Nat
      /\ \A i \in 1..Len(p) : p[i] = q[i]
  BY PathOf, UnderDef DEF Path
<1>4. Len(p) # Len(q)
  BY <1>3, PathOf, SeqEqual DEF Path
<1> DEFINE n == q[Len(p) + 1]
           c == Append(p, n)
<1>5. n \in Name
  BY <1>3, <1>4, PathOf
<1>6. /\ c \in Path /\ Len(c) = Len(p) + 1
      /\ \A i \in 1..Len(p) : c[i] = p[i]
      /\ c[Len(p) + 1] = n
  BY <1>5, AppendProperties DEF Path
<1> HIDE DEF c
<1>7. ASSUME NEW i \in 1..Len(c)
      PROVE  c[i] = q[i]
  <2>1. i \in 1..Len(p) \/ i = Len(p) + 1
    BY <1>3, <1>6
  <2> QED BY <1>3, <1>6, <2>1
<1>8. Len(c) <= Len(q) /\ c # <<>>
  BY <1>3, <1>4, <1>6
<1>9. Under(c, q)
  BY <1>6, <1>7, <1>8, PathOf, UnderDef DEF Path
<1>10. Kind(c) # "none"
  <2>1. CASE c = q
    BY <2>1 DEF Kind
  <2>2. CASE c # q
    BY <1>6, <1>8, <1>9, <2>2, Above
  <2> QED BY <2>1, <2>2
<1> QED BY <1>2, <1>5, <1>10 DEF Names, c

LEMMA ShapedCreated ==
  ASSUME FilesInv, Shaped, NEW q \in Paths, Created(q)
  PROVE  Shaped'
<1>1. PICK k \in {"file", "dir"} : kind' = [kind EXCEPT ![q] = k]
  BY DEF Created
<1>2. kind \in [Paths -> Kinds] /\ kind[q] = "none" /\ q # <<>>
  BY DEF FilesInv, Types, Created
<1>3. \A p : Kind(p) # "none" => Kind(p)' = Kind(p)
  BY <1>1, <1>2 DEF Kind
<1> SUFFICES ASSUME NEW p \in Paths, kind'[p] # "none", NEW i \in 1..(Len(p) - 1)
             PROVE  Kind(SubSeq(p, 1, i))' = "dir"
  BY DEF Shaped
<1>4. CASE p # q
  <2>1. kind[p] # "none"
    BY <1>1, <1>2, <1>4
  <2> QED BY <1>3, <2>1 DEF Shaped
<1>5. CASE p = q
  <2> DEFINE d == Front(q)
             x == SubSeq(q, 1, i)
  <2>1. q \in Path /\ Len(q) \in Nat /\ i \in 1..(Len(q) - 1) /\ i \in 0..Len(q)
    BY <1>5, PathOf DEF Path
  <2>2. d \in Path /\ Len(d) = Len(q) - 1 /\ Under(d, q)
    BY <1>2, <2>1, FrontUnder DEF Path
  <2>3. x \in Path /\ Len(x) = i
    BY <2>1, PrefixIs DEF Path
  <2>4. Kind(d) = "dir"
    BY DEF Created
  <2>5. x = SubSeq(d, 1, i)
    BY <2>1, <2>2, SamePrefix DEF Path
  <2>6. Under(x, d)
    <3>1. i \in 0..Len(d)
      BY <2>1, <2>2
    <3> HIDE DEF d
    <3>2. Under(SubSeq(d, 1, i), d)
      BY <2>2, <3>1, PrefixUnder DEF Path
    <3> QED BY <2>5, <3>2
  <2>7. x # <<>>
    BY <2>1, <2>3
  <2> HIDE DEF d, x
  <2>8. Kind(x) = "dir"
    <3>1. CASE x = d
      BY <2>4, <3>1
    <3>2. CASE x # d
      BY <2>3, <2>4, <2>6, <2>7, <3>2, Above DEF Kind
    <3> QED BY <3>1, <3>2
  <2> QED BY <1>3, <1>5, <2>8 DEF x
<1> QED BY <1>4, <1>5

LEMMA ShapedRemoved ==
  ASSUME FilesInv, Shaped, NEW q \in Paths, Removed(q)
  PROVE  Shaped'
<1>1. kind' = [kind EXCEPT ![q] = "none"]
  BY DEF Removed
<1>2. kind \in [Paths -> Kinds] /\ q # <<>> /\ q \in Path
  BY PathOf DEF FilesInv, Types, Removed
<1>3. Kind(q) # "dir" \/ Names(q) = {}
  BY DEF Removed, Kind
<1>4. \A x : x # q => Kind(x)' = Kind(x)
  BY <1>1, <1>2 DEF Kind
<1> SUFFICES ASSUME NEW p \in Paths, kind'[p] # "none", NEW i \in 1..(Len(p) - 1)
             PROVE  Kind(SubSeq(p, 1, i))' = "dir"
  BY DEF Shaped
<1>5. p # q /\ kind[p] # "none"
  BY <1>1, <1>2
<1>6. Kind(SubSeq(p, 1, i)) = "dir"
  BY <1>5 DEF Shaped
<1>7. SubSeq(p, 1, i) # q
  <2> SUFFICES ASSUME SubSeq(p, 1, i) = q PROVE FALSE
    OBVIOUS
  <2>1. i \in 0..Len(p)
    BY PathOf
  <2>2. Under(q, p)
    BY <2>1, PathOf, PrefixUnder
  <2> QED BY <1>2, <1>3, <1>5, <2>2, NothingBelow
<1> QED BY <1>4, <1>6, <1>7

LEMMA ShapedStays ==
  ASSUME FilesInv, Shaped, NEW s \in Sessions, Effect(s)
  PROVE  Shaped'
<1>1. CASE kind' = kind
  BY <1>1 DEF Shaped, Kind
<1>2. CASE \E q \in Paths : Created(q) \/ Removed(q)
  BY <1>2, ShapedCreated, ShapedRemoved
<1> QED BY <1>1, <1>2 DEF Effect

(* No step makes a link.                                                   *)
LEMMA LinksShrink ==
  ASSUME FilesInv, NEW s \in Sessions, Effect(s)
  PROVE  \A p : Links(p)' \subseteq Links(p)
<1>1. kind \in [Paths -> Kinds]
  BY DEF FilesInv, Types
<1>2. \A q \in Paths : kind'[q] = "link" => kind[q] = "link"
  BY <1>1 DEF Effect, Created, Removed
<1>3. \A p : Kind(p)' = "link" => Kind(p) = "link"
  BY <1>2 DEF Kind
<1> QED BY <1>3 DEF Links

-----------------------------------------------------------------------------
(* The walk of delete_directory_recursively                                *)

(* p is under the path that was named, and no link is met below that path. *)
Inside(t, p) ==
    /\ Under(op[t].path, p)
    /\ Links(p) \subseteq 1..Len(op[t].path)

(* The same for the directory p is in; or p is what was named.             *)
Near(t, p) == p = op[t].path \/ (p # <<>> /\ Inside(t, Front(p)))

(* The calls of the commands.                                              *)
OwnCall(t) ==
    /\ at[t] \in {"unlink", "opendir", "readdir", "lstat", "remove"} => op[t].cmd = "DELE"
    /\ at[t] = "mkdir" => op[t].cmd = "MKD"
    /\ at[t] = "chdir" => op[t].cmd = "CWD"

(* A link on the path that was named still leads where it led at first,    *)
(* and the walk has not left what was named.                               *)
WalkAt(t, a, e, k) ==
    /\ Links(op[t].path) # {} => goal[t] = Resolve(t, op[t].path)
    /\ k = <<>> => e = op[t].path
    /\ a \in {"stat", "unlink"} \/ op[t].cmd = "RMD" => k = <<>>
    /\ a = "opendir" => Inside(t, e)
    /\ a # "readdir" => Near(t, e)
    /\ a = "rmdir" /\ op[t].cmd = "DELE" => e = k[Len(k)].path
    /\ \A i \in 1..Len(k) : Inside(t, k[i].path)
    /\ k # <<>> => k[1].path = op[t].path

Walk(t) == WalkAt(t, at[t], entry[t], stack[t])

WalkInv ==
    \A t \in Sessions : at[t] # "idle" =>
        OwnCall(t) /\ (op[t].cmd \in {"DELE", "RMD"} => Walk(t))

DeleteInv == FilesInv /\ OtherTypes /\ Shaped /\ WalkInv

LEMMA ResolveKept ==
  ASSUME NEW t, conn'[t].root = conn[t].root
  PROVE  \A p : Links(p)' = Links(p) => Resolve(t, p)' = Resolve(t, p)
BY DEF Resolve

LEMMA SameLinks ==
  ASSUME kind' = kind
  PROVE  \A p : Links(p)' = Links(p)
BY DEF Links, Kind

(* The link of a path is gone, or it is the one it was.                    *)
LEMMA GoalStays ==
  ASSUME FilesInv, Shaped, NEW t \in Sessions, conn'[t].root = conn[t].root,
         \A p : Links(p)' \subseteq Links(p), NEW p \in Path, Links(p)' # {}
  PROVE  Links(p) # {} /\ Resolve(t, p)' = Resolve(t, p)
<1>1. PICK i \in Links(p)' : i \in Links(p)
  OBVIOUS
<1>2. \A j \in Links(p) : j = i
  BY <1>1, OneLink
<1>3. Links(p)' = Links(p)
  BY <1>1, <1>2
<1> QED BY <1>1, <1>3, ResolveKept

LEMMA WalkGoes ==
  ASSUME DeleteInv, NEW t \in Sessions, conn'[t].root = conn[t].root,
         \A p : Links(p)' \subseteq Links(p), NEW a, NEW e, NEW k, WalkAt(t, a, e, k),
         at'[t] = a, entry'[t] = e, stack'[t] = k, op'[t] = op[t], goal'[t] = goal[t]
  PROVE  Walk(t)'
<1>1. op[t].path \in Path /\ goal[t] \in Path
  BY Session1 DEF DeleteInv, OtherTypes, Ops
<1>2. \A p : Inside(t, p) => Inside(t, p)'
  BY DEF Inside
<1>3. \A p : Near(t, p) => Near(t, p)'
  BY <1>2 DEF Near
<1>4. (Links(op[t].path) # {} => goal[t] = Resolve(t, op[t].path))'
  <2> SUFFICES ASSUME Links(op[t].path)' # {}
               PROVE  goal'[t] = Resolve(t, op[t].path)'
    OBVIOUS
  <2> QED BY <1>1, GoalStays DEF DeleteInv, WalkAt
<1>5. (at[t] = "opendir" => Inside(t, entry[t]))'
  BY <1>2 DEF WalkAt
<1>6. (at[t] # "readdir" => Near(t, entry[t]))'
  BY <1>3 DEF WalkAt
<1>7. (\A i \in 1..Len(stack[t]) : Inside(t, stack[t][i].path))'
  BY <1>2 DEF WalkAt
<1>8. /\ (stack[t] = <<>> => entry[t] = op[t].path)'
      /\ (at[t] \in {"stat", "unlink"} \/ op[t].cmd = "RMD" => stack[t] = <<>>)'
      /\ (at[t] = "rmdir" /\ op[t].cmd = "DELE" => entry[t] = stack[t][Len(stack[t])].path)'
      /\ (stack[t] # <<>> => stack[t][1].path = op[t].path)'
  BY DEF WalkAt
<1> QED BY <1>4, <1>5, <1>6, <1>7, <1>8 DEF Walk, WalkAt

(* What is true of the path that was named.                                *)
LEMMA Named1 ==
  ASSUME DeleteInv, NEW s \in Sessions
  PROVE  /\ op[s].path \in Path /\ goal[s] \in Path /\ conn[s].root \in Seq(Name)
         /\ Shaped /\ LinksKept /\ FilesInv
         /\ Inside(s, op[s].path) /\ Near(s, op[s].path)
<1>1. op[s].path \in Path /\ goal[s] \in Path
  BY Session1 DEF DeleteInv, OtherTypes, Ops
<1>2. Under(op[s].path, op[s].path)
  BY <1>1, UnderSelf DEF Path
<1>3. Links(op[s].path) \subseteq 1..Len(op[s].path)
  BY LinksOf
<1> QED BY <1>1, <1>2, <1>3, Session1 DEF DeleteInv, Inside, Near

(* What a call of the walk acts on is under what was named, or under what  *)
(* that led to when the command began.                                     *)
LEMMA NearGoal ==
  ASSUME DeleteInv, NEW s \in Sessions, NEW e \in Path, Near(s, e),
         Links(op[s].path) # {} => goal[s] = Resolve(s, op[s].path)
  PROVE  Under(op[s].path, LResolve(s, e)) \/ Under(goal[s], LResolve(s, e))
<1> DEFINE p == op[s].path
<1>1. p \in Path /\ goal[s] \in Path /\ conn[s].root \in Seq(Name) /\ Shaped /\ LinksKept
  BY Named1
<1>2. CASE e = p
  <2>1. CASE Links(p) = {} \/ Len(p) \in Links(p)
    BY <1>1, <1>2, <2>1, LResolveLink, UnderSelf DEF Path
  <2>2. CASE Links(p) # {} /\ Len(p) \notin Links(p)
    <3>1. LResolve(s, p) = goal[s]
      BY <1>1, <2>2, LResolveSame
    <3> QED BY <1>1, <1>2, <3>1, UnderSelf DEF Path
  <2> QED BY <2>1, <2>2
<1>3. CASE e # p
  <2> DEFINE x == SubSeq(e, Len(p) + 1, Len(e))
             r == Resolve(s, p)
  <2>1. e # <<>> /\ Under(p, Front(e)) /\ Links(Front(e)) \subseteq 1..Len(p)
    BY <1>3 DEF Near, Inside
  <2>2. LResolve(s, e) = r \o x
    BY <1>1, <2>1, LResolveUnder
  <2>3. x \in Path
    BY <1>1, RestType, <2>1
  <2>4. r = p \/ r = goal[s]
    BY DEF Resolve
  <2> HIDE DEF r, x
  <2>5. r \in Path
    BY <1>1, <2>4
  <2>6. Under(r, r \o x)
    BY <2>3, <2>5, ConcatUnder DEF Path
  <2> QED BY <2>2, <2>4, <2>6
<1> QED BY <1>2, <1>3

(* A directory the walk goes down to is no link.                           *)
LEMMA OpenInside ==
  ASSUME DeleteInv, NEW s \in Sessions, NEW e \in Path, Near(s, e), lstat(s, e) = "dir"
  PROVE  Inside(s, e)
<1> DEFINE p == op[s].path
<1>1. p \in Path /\ Shaped /\ Inside(s, p)
  BY Named1
<1>2. CASE e = p
  BY <1>1, <1>2
<1>3. CASE e # p
  <2> DEFINE d == Front(e)
  <2>1. e # <<>> /\ Under(p, d) /\ Links(d) \subseteq 1..Len(p)
    BY <1>3 DEF Near, Inside
  <2>2. d \in Path /\ Under(d, e) /\ Len(d) = Len(e) - 1 /\ Len(e) \in Nat
    BY <2>1, FrontUnder DEF Path
  <2> HIDE DEF d
  <2>3. Under(p, e)
    BY <1>1, <2>1, <2>2, UnderTrans DEF Path
  <2>4. Len(e) \notin Links(e)
    <3> SUFFICES ASSUME Len(e) \in Links(e) PROVE FALSE
      OBVIOUS
    <3>1. LResolve(s, e) = e
      BY <1>1, LResolveLink
    <3>2. Kind(SubSeq(e, 1, Len(e))) = "link"
      BY LinksOf
    <3>3. SubSeq(e, 1, Len(e)) = e
      BY WholePrefix
    <3> QED BY <3>1, <3>2, <3>3 DEF lstat
  <2>5. Links(e) \subseteq 1..Len(p)
    <3> SUFFICES ASSUME NEW i \in Links(e) PROVE i \in 1..Len(p)
      OBVIOUS
    <3>1. i \in 1..Len(e) /\ i # Len(e)
      BY <2>4, LinksOf
    <3>2. i \in 1..Len(d)
      BY <2>2, <3>1
    <3>3. i \in Links(d)
      BY <2>2, <3>2, LinksUnder
    <3> QED BY <2>1, <3>3
  <2> QED BY <2>3, <2>5 DEF Inside
<1> QED BY <1>2, <1>3

LEMMA InsideNear ==
  ASSUME DeleteInv, NEW s \in Sessions, NEW e \in Path, Inside(s, e)
  PROVE  Near(s, e)
<1> DEFINE p == op[s].path
<1>1. p \in Path
  BY Named1
<1>2. CASE e # p
  <2> DEFINE d == Front(e)
  <2>1. e # <<>> /\ Under(p, d)
    BY <1>1, <1>2, UnderFront DEF Inside, Path
  <2>2. d \in Path /\ Under(d, e)
    BY <2>1, FrontUnder DEF Path
  <2> HIDE DEF d
  <2>3. Links(d) \subseteq Links(e)
    BY <2>2, LinksOf, LinksUnder
  <2>4. Inside(s, d)
    BY <2>1, <2>3 DEF Inside
  <2> QED BY <2>1, <2>4 DEF Near, d
<1> QED BY <1>2 DEF Near

(* The part of WalkInv about one session.                                  *)
Walks(t) ==
    at[t] # "idle" => OwnCall(t) /\ (op[t].cmd \in {"DELE", "RMD"} => Walk(t))

LEMMA GotoWalks ==
  ASSUME DeleteInv, NEW s \in Sessions, Effect(s), at[s] # "idle",
         NEW a, NEW e, NEW k, Goto(s, a, e), stack' = [stack EXCEPT ![s] = k],
         a \in {"unlink", "opendir", "readdir", "lstat", "remove"} => op[s].cmd = "DELE",
         a = "mkdir" => op[s].cmd = "MKD",
         a = "chdir" => op[s].cmd = "CWD",
         op[s].cmd \in {"DELE", "RMD"} => WalkAt(s, a, e, k)
  PROVE  Walks(s)'
<1>1. /\ at'[s] = a /\ entry'[s] = e /\ stack'[s] = k
      /\ op'[s] = op[s] /\ goal'[s] = goal[s]
  BY DEF DeleteInv, FilesInv, Types, Goto
<1>2. conn'[s].root = conn[s].root /\ \A p : Links(p)' \subseteq Links(p)
  BY LinksShrink DEF Effect, DeleteInv
<1>3. OwnCall(s)'
  BY <1>1 DEF OwnCall
<1>4. ASSUME op[s].cmd \in {"DELE", "RMD"}
      PROVE  Walk(s)'
  BY <1>1, <1>2, <1>4, WalkGoes
<1> QED BY <1>1, <1>3, <1>4 DEF Walks

LEMMA AnswerWalks ==
  ASSUME DeleteInv, NEW s \in Sessions, NEW code, Answer(s, code)
  PROVE  Walks(s)'
<1>1. at'[s] = "idle"
  BY DEF DeleteInv, FilesInv, Types, Answer
<1> QED BY <1>1 DEF Walks

LEMMA StatWalks ==
  ASSUME DeleteInv, NEW s \in Sessions, Effect(s), Stat(s)
  PROVE  Walks(s)'
<1>1. at[s] = "stat"
  BY DEF Stat
<1>2. op[s].cmd \in {"DELE", "RMD"} => stack[s] = <<>> /\ entry[s] = op[s].path
  BY <1>1 DEF DeleteInv, WalkInv, Walk, WalkAt
<1>3. op[s].cmd \in {"DELE", "RMD"} =>
         (Links(op[s].path) # {} => goal[s] = Resolve(s, op[s].path))
  BY <1>1 DEF DeleteInv, WalkInv, Walk, WalkAt
<1>4. ASSUME UNCHANGED stack
      PROVE  stack' = [stack EXCEPT ![s] = stack[s]]
  BY <1>4, SameStack DEF DeleteInv
<1>5. CASE \E code : Answer(s, code)
  BY <1>5, AnswerWalks
<1>6. ASSUME NEW a \in {"opendir", "unlink"}, op[s].cmd = "DELE",
             Goto(s, a, entry[s]), UNCHANGED stack
      PROVE  Walks(s)'
  <2>1. WalkAt(s, a, entry[s], stack[s])
    BY <1>2, <1>3, <1>6, Named1 DEF WalkAt
  <2> QED BY <1>1, <1>4, <1>6, <2>1, GotoWalks
<1>7. ASSUME op[s].cmd = "RMD", Goto(s, "rmdir", entry[s]), UNCHANGED stack
      PROVE  Walks(s)'
  <2>1. WalkAt(s, "rmdir", entry[s], stack[s])
    BY <1>2, <1>3, <1>7, Named1 DEF WalkAt
  <2> QED BY <1>1, <1>4, <1>7, <2>1, GotoWalks
<1>8. ASSUME op[s].cmd = "MKD", Goto(s, "mkdir", entry[s]), UNCHANGED stack
      PROVE  Walks(s)'
  BY <1>1, <1>4, <1>8, GotoWalks
<1>9. ASSUME op[s].cmd = "CWD", Goto(s, "chdir", entry[s]), UNCHANGED stack
       PROVE  Walks(s)'
  BY <1>1, <1>4, <1>9, GotoWalks
<1>10. CASE DeleStat(s)
  <2>1. /\ op[s].cmd = "DELE"
        /\ \/ \E code : Answer(s, code)
           \/ Goto(s, "opendir", entry[s]) /\ UNCHANGED stack
           \/ Goto(s, "unlink", entry[s]) /\ UNCHANGED stack
    BY <1>10 DEF DeleStat, Deleted
  <2> QED BY <1>5, <1>6, <2>1
<1>11. CASE MkdStat(s)
  <2>1. \/ \E code : Answer(s, code)
        \/ op[s].cmd = "MKD" /\ Goto(s, "mkdir", entry[s]) /\ UNCHANGED stack
    BY <1>11, Zenon DEF MkdStat
  <2> QED BY <1>5, <1>8, <2>1
<1>12. CASE RmdStat(s)
  <2>1. \/ \E code : Answer(s, code)
        \/ op[s].cmd = "RMD" /\ Goto(s, "rmdir", entry[s]) /\ UNCHANGED stack
    BY <1>12, Zenon DEF RmdStat
  <2> QED BY <1>5, <1>7, <2>1
<1>13. CASE CwdStat(s)
  <2>1. \/ \E code : Answer(s, code)
        \/ op[s].cmd = "CWD" /\ Goto(s, "chdir", entry[s]) /\ UNCHANGED stack
    BY <1>13, Zenon DEF CwdStat
  <2> QED BY <1>5, <1>9, <2>1
<1> QED BY <1>10, <1>11, <1>12, <1>13 DEF Stat

(* The stack in the middle of a walk.                                      *)
LEMMA Walking ==
  ASSUME DeleteInv, NEW s \in Sessions,
         \/ at[s] \in {"opendir", "readdir", "lstat", "remove"}
         \/ at[s] = "rmdir" /\ op[s].cmd = "DELE"
  PROVE  /\ op[s].cmd = "DELE" /\ OwnCall(s) /\ WalkAt(s, at[s], entry[s], stack[s])
         /\ stack[s] \in Seq(Frame) /\ Len(stack[s]) \in Nat
         /\ at[s] # "opendir" => stack[s] # <<>> /\ Len(stack[s]) >= 1
<1>1. op[s].cmd = "DELE" /\ OwnCall(s) /\ WalkAt(s, at[s], entry[s], stack[s])
  BY DEF DeleteInv, WalkInv, OwnCall, Walk
<1>2. stack[s] \in Seq(Frame) /\ Held(conn[s], at[s], entry[s], stack[s], op[s])
  BY Session1 DEF DeleteInv
<1>3. at[s] # "opendir" => stack[s] # <<>>
  BY <1>1, <1>2 DEF Held
<1> QED BY <1>1, <1>2, <1>3

LEMMA OpenDirWalks ==
  ASSUME DeleteInv, NEW s \in Sessions, Effect(s), OpenDir(s)
  PROVE  Walks(s)'
<1>1. CASE stat(s, entry[s]) # "dir"
  BY <1>1, AnswerWalks DEF OpenDir, Deleted
<1>2. CASE stat(s, entry[s]) = "dir"
  <2> DEFINE f == [path |-> entry[s], seen |-> {}, old |-> Names(Resolve(s, entry[s]))]
             k == Append(stack[s], f)
  <2>1. at[s] = "opendir"
    BY DEF OpenDir
  <2>2. op[s].cmd = "DELE" /\ WalkAt(s, "opendir", entry[s], stack[s])
        /\ stack[s] \in Seq(Frame) /\ Len(stack[s]) \in Nat
    BY <2>1, Walking
  <2>3. f \in Frame /\ f.path = entry[s]
    BY Session1 DEF DeleteInv, Frame, Names
  <2>4. stack' = [stack EXCEPT ![s] = k] /\ Goto(s, "readdir", <<>>)
    BY <1>2 DEF OpenDir
  <2> HIDE DEF f
  <2>5. k # <<>> /\ Len(k) = Len(stack[s]) + 1
        /\ (\A i \in 1..Len(stack[s]) : k[i] = stack[s][i]) /\ k[Len(stack[s]) + 1] = f
    BY <2>2, <2>3, AppendProperties
  <2> HIDE DEF k
  <2>6. ASSUME NEW i \in 1..Len(k)
        PROVE  Inside(s, k[i].path)
    <3>1. i \in 1..Len(stack[s]) \/ i = Len(stack[s]) + 1
      BY <2>2, <2>5
    <3> QED BY <2>2, <2>3, <2>5, <3>1 DEF WalkAt
  <2>7. k[1].path = op[s].path
    <3>1. CASE stack[s] = <<>>
      BY <2>2, <2>3, <2>5, <3>1 DEF WalkAt
    <3>2. CASE stack[s] # <<>>
      <4>1. 1 \in 1..Len(stack[s])
        BY <2>2, <3>2
      <4> QED BY <2>2, <2>5, <3>2, <4>1 DEF WalkAt
    <3> QED BY <3>1, <3>2
  <2>8. WalkAt(s, "readdir", <<>>, k)
    BY <2>2, <2>5, <2>6, <2>7 DEF WalkAt
  <2> QED BY <2>1, <2>2, <2>4, <2>8, GotoWalks
<1> QED BY <1>1, <1>2

(* The frames after entry n was read.                                      *)
ReadFrame(s, n) == [Last(stack[s]) EXCEPT !.old = @ \ {n}, !.seen = @ \cup {n}]
ReadStack(s, n) == Append(Front(stack[s]), ReadFrame(s, n))

LEMMA ReadFrames ==
  ASSUME DeleteInv, NEW s \in Sessions, at[s] = "readdir",
         NEW n \in Last(stack[s]).old \cup (Names(Resolve(s, Last(stack[s]).path))
                                               \ Last(stack[s]).seen)
  PROVE  /\ n \in Name
         /\ ReadFrame(s, n).path = Last(stack[s]).path
         /\ ReadFrame(s, n).old = Last(stack[s]).old \ {n}
         /\ ReadStack(s, n) # <<>> /\ Len(ReadStack(s, n)) = Len(stack[s])
         /\ ReadStack(s, n)[Len(stack[s])] = ReadFrame(s, n)
         /\ \A i \in 1..(Len(stack[s]) - 1) : ReadStack(s, n)[i] = stack[s][i]
<1> DEFINE m == Len(stack[s])
           top == Last(stack[s])
           r == Front(stack[s])
           f == ReadFrame(s, n)
           k == ReadStack(s, n)
<1>1. stack[s] \in Seq(Frame) /\ stack[s] # <<>> /\ m \in Nat /\ m >= 1
  BY Walking
<1>2. /\ r \in Seq(Frame) /\ Len(r) = m - 1
      /\ \A i \in 1..(m - 1) : r[i] = stack[s][i]
      /\ top \in Frame /\ top = stack[s][m]
  BY <1>1, FrontLast
<1>3. n \in Name
  BY <1>2 DEF Frame, Names
<1> HIDE DEF top
<1>4. f = [top EXCEPT !.old = @ \ {n}, !.seen = @ \cup {n}]
  BY DEF top, ReadFrame
<1>5. f \in Frame /\ f.path = top.path /\ f.old = top.old \ {n}
  <2> DEFINE g == [top EXCEPT !.old = @ \ {n}, !.seen = @ \cup {n}]
  <2>1. g \in Frame /\ g.path = top.path /\ g.old = top.old \ {n}
    BY <1>2, <1>3 DEF Frame
  <2> HIDE DEF g, f
  <2>2. f = g
    BY <1>4 DEF g
  <2> QED BY <2>1, <2>2
<1> HIDE DEF f, k, r
<1>6. k # <<>> /\ Len(k) = Len(r) + 1 /\ k[Len(r) + 1] = f
      /\ \A i \in 1..Len(r) : k[i] = r[i]
  <2>1. k = Append(r, f)
    BY DEF r, k, f, ReadStack
  <2> QED BY <1>2, <1>5, <2>1, AppendProperties
<1> HIDE DEF m
<1>7. Len(r) + 1 = m /\ Len(r) = m - 1
  BY <1>1, <1>2
<1> QED BY <1>2, <1>3, <1>5, <1>6, <1>7 DEF m, top, f, k

LEMMA ReadDirWalks ==
  ASSUME DeleteInv, NEW s \in Sessions, Effect(s), ReadDir(s)
  PROVE  Walks(s)'
<1> DEFINE m == Len(stack[s])
           top == Last(stack[s])
<1>1. at[s] = "readdir"
  BY DEF ReadDir
<1>2. /\ op[s].cmd = "DELE" /\ WalkAt(s, "readdir", entry[s], stack[s])
      /\ stack[s] \in Seq(Frame) /\ stack[s] # <<>> /\ m \in Nat /\ m >= 1
  BY <1>1, Walking
<1>3. top = stack[s][m] /\ top \in Frame /\ top.path \in Path /\ Inside(s, top.path)
  <2>1. top = stack[s][m] /\ top \in Frame
    BY <1>2, FrontLast
  <2>2. m \in 1..m
    BY <1>2
  <2> QED BY <1>2, <2>1, <2>2 DEF WalkAt, Frame
<1>4. ASSUME NEW n \in top.old \cup (Names(Resolve(s, top.path)) \ top.seen),
             stack' = [stack EXCEPT ![s] =
                          Append(Front(@), [top EXCEPT !.old = @ \ {n},
                                                       !.seen = @ \cup {n}])],
             Goto(s, "lstat", Append(top.path, n))
      PROVE  Walks(s)'
  <2> DEFINE f == ReadFrame(s, n)
             k == ReadStack(s, n)
             e == Append(top.path, n)
  <2>1. /\ n \in Name /\ f.path = top.path
        /\ k # <<>> /\ Len(k) = m /\ k[m] = f
        /\ \A i \in 1..(m - 1) : k[i] = stack[s][i]
    BY <1>1, ReadFrames
  <2>2. stack' = [stack EXCEPT ![s] = k]
    BY <1>4 DEF DeleteInv, FilesInv, Types, ReadStack, ReadFrame
  <2>3. e # <<>> /\ Front(e) = top.path
    BY <1>3, <2>1, FrontAppend DEF Path
  <2>4. Near(s, e)
    BY <1>3, <2>3 DEF Near
  <2>5. Goto(s, "lstat", e)
    BY <1>4
  <2> HIDE DEF f, k, e, top, m
  <2>6. ASSUME NEW i \in 1..m
        PROVE  k[i].path = stack[s][i].path
    <3>1. i = m \/ i \in 1..(m - 1)
      BY <1>2
    <3> QED BY <1>3, <2>1, <3>1
  <2>7. \A i \in 1..Len(k) : Inside(s, k[i].path)
    BY <1>2, <2>1, <2>6 DEF WalkAt, m
  <2>8. k[1].path = op[s].path
    <3>1. 1 \in 1..m
      BY <1>2
    <3> QED BY <1>2, <2>6, <3>1 DEF WalkAt
  <2>9. WalkAt(s, "lstat", e, k)
    BY <1>2, <2>1, <2>4, <2>7, <2>8 DEF WalkAt
  <2> QED BY <1>1, <1>2, <2>2, <2>5, <2>9, GotoWalks
<1>5. ASSUME stack' = stack, Goto(s, "rmdir", top.path)
      PROVE  Walks(s)'
  <2>1. Near(s, top.path)
    BY <1>3, InsideNear
  <2> HIDE DEF top
  <2>2. WalkAt(s, "rmdir", top.path, stack[s])
    BY <1>2, <1>3, <2>1 DEF WalkAt
  <2>3. stack' = [stack EXCEPT ![s] = stack[s]]
    BY <1>5, SameStack DEF DeleteInv
  <2> QED BY <1>1, <1>2, <1>5, <2>2, <2>3, GotoWalks
<1> QED BY <1>4, <1>5 DEF ReadDir

LEMMA LstatWalks ==
  ASSUME DeleteInv, NEW s \in Sessions, Effect(s), Lstat(s)
  PROVE  Walks(s)'
<1>1. at[s] = "lstat" /\ UNCHANGED stack
  BY DEF Lstat
<1>2. /\ op[s].cmd = "DELE" /\ WalkAt(s, "lstat", entry[s], stack[s])
      /\ stack[s] # <<>>
  BY <1>1, Walking
<1>3. stack' = [stack EXCEPT ![s] = stack[s]]
  BY <1>1, SameStack DEF DeleteInv
<1>4. entry[s] \in Path /\ Near(s, entry[s])
  BY <1>2, Session1 DEF DeleteInv, WalkAt
<1>5. \/ Goto(s, "readdir", entry[s]) \/ Goto(s, "remove", entry[s])
      \/ Goto(s, "opendir", entry[s]) /\ lstat(s, entry[s]) = "dir"
  BY DEF Lstat
<1>6. WalkAt(s, "readdir", entry[s], stack[s]) /\ WalkAt(s, "remove", entry[s], stack[s])
  BY <1>2 DEF WalkAt
<1>7. lstat(s, entry[s]) = "dir" => WalkAt(s, "opendir", entry[s], stack[s])
  BY <1>2, <1>4, OpenInside DEF WalkAt
<1>8. ASSUME NEW a \in {"readdir", "remove", "opendir"}, Goto(s, a, entry[s]),
             WalkAt(s, a, entry[s], stack[s])
      PROVE  Walks(s)'
  BY <1>1, <1>2, <1>3, <1>8, GotoWalks
<1> QED BY <1>5, <1>6, <1>7, <1>8

LEMMA UnlinkEntryWalks ==
  ASSUME DeleteInv, NEW s \in Sessions, Effect(s), UnlinkEntry(s)
  PROVE  Walks(s)'
<1>1. at[s] = "remove" /\ UNCHANGED stack /\ Goto(s, "readdir", <<>>)
  BY DEF UnlinkEntry
<1>2. /\ op[s].cmd = "DELE" /\ WalkAt(s, "remove", entry[s], stack[s])
      /\ stack[s] # <<>>
  BY <1>1, Walking
<1>3. stack' = [stack EXCEPT ![s] = stack[s]]
  BY <1>1, SameStack DEF DeleteInv
<1>4. WalkAt(s, "readdir", <<>>, stack[s])
  BY <1>2 DEF WalkAt
<1> QED BY <1>1, <1>2, <1>3, <1>4, GotoWalks

(* What is left when the directory on top is done.                         *)
LEMMA PopFrames ==
  ASSUME DeleteInv, NEW s \in Sessions, stack[s] \in Seq(Frame), stack[s] # <<>>,
         Len(stack[s]) # 1
  PROVE  /\ Front(stack[s]) # <<>> /\ Len(Front(stack[s])) = Len(stack[s]) - 1
         /\ Len(stack[s]) \in Nat /\ Len(stack[s]) >= 2
         /\ \A i \in 1..(Len(stack[s]) - 1) : Front(stack[s])[i] = stack[s][i]
<1> DEFINE n == Len(stack[s])
           k == Front(stack[s])
<1>1. n \in Nat /\ n # 0 /\ n # 1
  OBVIOUS
<1>2. k \in Seq(Frame) /\ Len(k) = n - 1 /\ \A i \in 1..(n - 1) : k[i] = stack[s][i]
  BY FrontLast
<1> HIDE DEF n, k
<1>3. n >= 2 /\ k # <<>>
  BY <1>1, <1>2
<1> QED BY <1>1, <1>2, <1>3 DEF n, k

LEMMA RmdirWalks ==
  ASSUME DeleteInv, NEW s \in Sessions, Effect(s), Rmdir(s)
  PROVE  Walks(s)'
<1>1. CASE \E code : Answer(s, code)
  BY <1>1, AnswerWalks
<1>2. CASE stack' = [stack EXCEPT ![s] = Front(stack[s])] /\ Goto(s, "readdir", <<>>)
           /\ Len(stack[s]) # 1
  <2> DEFINE k == Front(stack[s])
  <2>1. at[s] = "rmdir" /\ op[s].cmd = "DELE"
    BY DEF Rmdir
  <2>2. /\ WalkAt(s, "rmdir", entry[s], stack[s])
        /\ stack[s] \in Seq(Frame) /\ stack[s] # <<>>
    BY <2>1, Walking
  <2>3. /\ k # <<>> /\ Len(k) = Len(stack[s]) - 1
        /\ Len(stack[s]) \in Nat /\ Len(stack[s]) >= 2
        /\ \A i \in 1..(Len(stack[s]) - 1) : k[i] = stack[s][i]
    BY <1>2, <2>2, PopFrames
  <2>4. stack' = [stack EXCEPT ![s] = k]
    BY <1>2
  <2> HIDE DEF k
  <2>5. ASSUME NEW i \in 1..Len(k)
        PROVE  Inside(s, k[i].path)
    <3>1. i \in 1..Len(stack[s]) /\ i \in 1..(Len(stack[s]) - 1)
      BY <2>3
    <3> QED BY <2>2, <2>3, <3>1 DEF WalkAt
  <2>6. k[1].path = op[s].path
    <3>1. 1 \in 1..(Len(stack[s]) - 1)
      BY <2>3
    <3> QED BY <2>2, <2>3, <3>1 DEF WalkAt
  <2>7. WalkAt(s, "readdir", <<>>, k)
    BY <2>1, <2>2, <2>3, <2>5, <2>6 DEF WalkAt
  <2> QED BY <1>2, <2>1, <2>4, <2>7, GotoWalks
<1>3. \/ \E code : Answer(s, code)
      \/ /\ stack' = [stack EXCEPT ![s] = Front(@)] /\ Goto(s, "readdir", <<>>)
         /\ Len(stack[s]) # 1
  BY Zenon DEF Rmdir, Return, Deleted
<1>4. [stack EXCEPT ![s] = Front(@)] = [stack EXCEPT ![s] = Front(stack[s])]
  OBVIOUS
<1> QED BY <1>1, <1>2, <1>3, <1>4

LEMMA BeginWalks ==
  ASSUME DeleteInv, NEW s \in Sessions, NEW cmd, NEW f, NEW r, Begin(s, cmd, f, r)
  PROVE  Walks(s)'
<1>1. CASE Answer(s, Unsafe(cmd))
  BY <1>1, AnswerWalks
<1>2. CASE \E n \in Named(s) :
              /\ op' = [op EXCEPT ![s] = [cmd |-> cmd, path |-> n.path,
                                          force |-> f, recursive |-> r]]
              /\ at' = [at EXCEPT ![s] = "stat"]
              /\ entry' = [entry EXCEPT ![s] = n.path]
              /\ goal' = [goal EXCEPT ![s] = Resolve(s, n.path)]
              /\ UNCHANGED <<conn, kind, stack>>
  <2>1. PICK n \in Named(s) :
              /\ op' = [op EXCEPT ![s] = [cmd |-> cmd, path |-> n.path,
                                          force |-> f, recursive |-> r]]
              /\ at' = [at EXCEPT ![s] = "stat"]
              /\ entry' = [entry EXCEPT ![s] = n.path]
              /\ goal' = [goal EXCEPT ![s] = Resolve(s, n.path)]
              /\ UNCHANGED <<conn, kind, stack>>
    BY <1>2
  <2>2. at[s] = "idle"
    BY DEF Begin, Ready
  <2>3. stack[s] = <<>>
    BY <2>2, Session1 DEF DeleteInv, Held
  <2>4. /\ op'[s].path = n.path /\ op'[s].cmd = cmd /\ at'[s] = "stat"
        /\ entry'[s] = n.path /\ goal'[s] = Resolve(s, n.path) /\ stack'[s] = <<>>
    BY <2>1, <2>3 DEF DeleteInv, FilesInv, Types, OtherTypes
  <2>5. conn' = conn /\ kind' = kind
    BY <2>1
  <2>6. \A p : Links(p)' = Links(p) /\ Resolve(s, p)' = Resolve(s, p)
    BY <2>5, SameLinks, ResolveKept
  <2>7. Walk(s)'
    BY <2>4, <2>6 DEF Walk, WalkAt, Near
  <2>8. OwnCall(s)'
    BY <2>4 DEF OwnCall
  <2> QED BY <2>7, <2>8 DEF Walks
<1> QED BY <1>1, <1>2 DEF Begin

LEMMA ActWalks ==
  ASSUME DeleteInv, NEW s \in Sessions, Act(s)
  PROVE  Walks(s)'
<1>1. Effect(s)
  BY ActEffect DEF DeleteInv
<1>2. CASE LoginStep(s) \/ StorOpen(s)
  <2>1. at'[s] = "idle"
    BY <1>2 DEF LoginStep, StorOpen, Ready
  <2> QED BY <2>1 DEF Walks
<1>3. CASE \/ handle_dele_command(s)
           \/ cftp_mkd_authenticated_action(s)
           \/ cftp_rmd_authenticated_action(s)
           \/ cftp_cwd_authenticated_action(s)
  BY <1>3, BeginWalks DEF handle_dele_command, cftp_mkd_authenticated_action,
     cftp_rmd_authenticated_action, cftp_cwd_authenticated_action
<1>4. CASE \/ cftp_size_authenticated_action(s)
           \/ handle_mdtm_command(s)
           \/ cftp_pwd_authenticated_action(s)
  BY <1>4, AnswerWalks DEF cftp_size_authenticated_action, handle_mdtm_command,
     cftp_pwd_authenticated_action
<1>5. CASE Unlink(s) \/ Mkdir(s) \/ Rmd(s) \/ Chdir(s)
  <2>1. \E code : Answer(s, code)
    BY <1>5 DEF Unlink, Mkdir, Rmd, Chdir, Deleted
  <2> QED BY <2>1, AnswerWalks
<1>6. CASE \/ Stat(s) \/ OpenDir(s) \/ ReadDir(s) \/ Lstat(s)
           \/ UnlinkEntry(s) \/ Rmdir(s)
  BY <1>1, <1>6, StatWalks, OpenDirWalks, ReadDirWalks, LstatWalks, UnlinkEntryWalks,
     RmdirWalks
<1> QED BY <1>2, <1>3, <1>4, <1>5, <1>6 DEF Act, Call

(* The step of a session leaves the walks of the others where they were.   *)
LEMMA OtherWalks ==
  ASSUME DeleteInv, NEW s \in Sessions, Act(s), NEW t \in Sessions \ {s}
  PROVE  Walks(t)'
<1>1. Effect(s) /\ Kept(t)
  BY ActEffect, ActKept DEF DeleteInv
<1>2. CASE at[t] = "idle"
  BY <1>1, <1>2 DEF Walks, Kept
<1>3. CASE at[t] # "idle"
  <2>1. conn'[t].root = conn[t].root /\ \A p : Links(p)' \subseteq Links(p)
    BY <1>1, <1>3, LinksShrink DEF Effect, DeleteInv
  <2>2. OwnCall(t) /\ (op[t].cmd \in {"DELE", "RMD"} => WalkAt(t, at[t], entry[t], stack[t]))
    BY <1>3 DEF DeleteInv, WalkInv, Walk
  <2>3. OwnCall(t)'
    BY <1>1, <2>2 DEF OwnCall, Kept
  <2>4. ASSUME op[t].cmd \in {"DELE", "RMD"}
        PROVE  Walk(t)'
    BY <1>1, <2>1, <2>2, <2>4, WalkGoes DEF Kept
  <2> QED BY <1>1, <2>3, <2>4 DEF Walks, Kept
<1> QED BY <1>2, <1>3

-----------------------------------------------------------------------------
LEMMA DeleteInit == Init => DeleteInv
<1> SUFFICES ASSUME Init PROVE DeleteInv
  OBVIOUS
<1>1. FilesInv
  BY InitInv
<1>2. OtherTypes
  BY EmptyPath, FilesAssumption DEF Init, OtherTypes, Codes
<1>3. Shaped
  BY FilesAssumption DEF Init, Shaped, Kind
<1>4. WalkInv
  BY DEF Init, WalkInv
<1> QED BY <1>1, <1>2, <1>3, <1>4 DEF DeleteInv

LEMMA DeleteNext ==
  ASSUME DeleteInv, Next
  PROVE  DeleteInv'
<1>1. FilesInv'
  BY NextInv DEF DeleteInv
<1>2. PICK s \in Sessions : Act(s)
  BY DEF Next, Act
<1>3. OtherTypes'
  BY <1>2, ActTypes DEF DeleteInv
<1>4. Shaped'
  BY <1>2, ActEffect, ShapedStays DEF DeleteInv
<1>5. \A t \in Sessions : Walks(t)'
  BY <1>2, ActWalks, OtherWalks
<1> QED BY <1>1, <1>3, <1>4, <1>5 DEF DeleteInv, WalkInv, Walks

LEMMA DeleteStutter ==
  ASSUME DeleteInv, UNCHANGED vars
  PROVE  DeleteInv'
<1>1. FilesInv'
  BY StutterInv DEF DeleteInv
<1>2. OtherTypes' /\ Shaped'
  BY DEF DeleteInv, OtherTypes, Shaped, Kind, vars
<1>3. /\ kind' = kind /\ conn' = conn /\ at' = at /\ entry' = entry /\ stack' = stack
      /\ op' = op /\ goal' = goal
  BY DEF vars
<1>4. \A p : Links(p)' = Links(p)
  BY <1>3, SameLinks
<1>5. ASSUME NEW t \in Sessions, at[t] # "idle"
      PROVE  OwnCall(t)' /\ (op[t].cmd \in {"DELE", "RMD"} => Walk(t)')
  <2>1. OwnCall(t) /\ (op[t].cmd \in {"DELE", "RMD"} => WalkAt(t, at[t], entry[t], stack[t]))
    BY <1>5 DEF DeleteInv, WalkInv, Walk
  <2>2. OwnCall(t)'
    BY <1>3, <2>1 DEF OwnCall
  <2>3. ASSUME op[t].cmd \in {"DELE", "RMD"}
        PROVE  Walk(t)'
    BY <1>3, <1>4, <2>1, <2>3, WalkGoes
  <2> QED BY <2>2, <2>3
<1>6. WalkInv'
  BY <1>3, <1>5 DEF WalkInv
<1> QED BY <1>1, <1>2, <1>6 DEF DeleteInv

(* The invariant of deletions, whatever other sessions do to the tree.     *)
THEOREM DeleteSafe == Spec => []DeleteInv
<1>1. DeleteInv /\ [Next]_vars => DeleteInv'
  BY DeleteNext, DeleteStutter
<1> QED BY <1>1, DeleteInit, PTL DEF Spec

(* The variables of the commands on files keep their types.                *)
THEOREM FilesTyped == Spec => []TypeOK
<1>1. DeleteInv => TypeOK
  BY DEF DeleteInv, FilesInv, Types, OtherTypes, TypeOK, Calls, Codes
<1> QED BY <1>1, DeleteSafe, PTL

-----------------------------------------------------------------------------
(* What is removed                                                         *)

(* The calls that remove something.                                        *)
Removing(s) ==
    /\ CanUnlink(s, entry[s]) \/ CanRmdir(s, entry[s])
    /\ Change(s, LResolve(s, entry[s]), "none")

LEMMA WhoRemoves ==
  ASSUME DeleteInv, NEW s \in Sessions, Act(s), NEW q \in Paths,
         kind[q] # "none", kind'[q] = "none"
  PROVE  /\ Unlink(s) \/ Rmd(s) \/ UnlinkEntry(s) \/ Rmdir(s)
         /\ Removing(s)
<1>1. kind \in [Paths -> Kinds]
  BY DEF DeleteInv, FilesInv, Types
<1>2. kind' # kind
  OBVIOUS
<1>3. ASSUME NEW p, NEW k \in {"file", "dir"}, Change(s, p, k)
      PROVE  FALSE
  <2>1. kind' = [kind EXCEPT ![p] = k]
    BY <1>3 DEF Change
  <2> QED BY <1>1, <2>1
<1>4. ~StorOpen(s) /\ ~NoChange(s) /\ ~LoginStep(s)
  BY <1>2, <1>3 DEF StorOpen, NoChange, LoginStep
<1>5. ~Mkdir(s)
  BY <1>3, <1>4 DEF Mkdir
<1>6. ~Chdir(s)
  BY <1>2, <1>4, Zenon DEF Chdir
<1>7. ~Stat(s) /\ ~OpenDir(s) /\ ~ReadDir(s) /\ ~Lstat(s)
  BY <1>4 DEF Stat, OpenDir, ReadDir, Lstat
<1>8. ASSUME NEW cmd, NEW f, NEW r
      PROVE  ~Begin(s, cmd, f, r)
  BY <1>2, <1>4 DEF Begin
<1>9. /\ ~handle_dele_command(s) /\ ~cftp_mkd_authenticated_action(s)
      /\ ~cftp_rmd_authenticated_action(s) /\ ~cftp_cwd_authenticated_action(s)
  BY <1>8 DEF handle_dele_command, cftp_mkd_authenticated_action,
     cftp_rmd_authenticated_action, cftp_cwd_authenticated_action
<1>10. /\ ~cftp_size_authenticated_action(s) /\ ~handle_mdtm_command(s)
       /\ ~cftp_pwd_authenticated_action(s)
  BY <1>4 DEF cftp_size_authenticated_action, handle_mdtm_command,
     cftp_pwd_authenticated_action
<1>11. Unlink(s) \/ Rmd(s) \/ UnlinkEntry(s) \/ Rmdir(s)
  BY <1>4, <1>5, <1>6, <1>7, <1>9, <1>10 DEF Act, Call
<1>12. Removing(s)
  BY <1>4, <1>11, Zenon DEF Removing, Unlink, Rmd, UnlinkEntry, Rmdir
<1> QED BY <1>11, <1>12

(* Whatever other sessions put in its way, a command removes nothing but   *)
(* what is under the path it was given or under what that path led to when *)
(* the command began.                                                      *)
THEOREM RemovesOnlyNamed == Spec => OnlyNamed
<1> DEFINE Only == \A q \in Paths : kind[q] # "none" /\ kind'[q] = "none" =>
                      \E s \in Sessions : /\ at'[s] # at[s]
                                         /\ op[s].cmd \in {"DELE", "RMD"}
                                         /\ \/ Under(op[s].path, q)
                                            \/ Under(goal[s], q)
<1>1. DeleteInv /\ [Next]_vars => [Only]_vars
  <2> SUFFICES ASSUME DeleteInv, Next, NEW q \in Paths,
                      kind[q] # "none", kind'[q] = "none"
               PROVE  \E s \in Sessions : /\ at'[s] # at[s]
                                          /\ op[s].cmd \in {"DELE", "RMD"}
                                          /\ \/ Under(op[s].path, q)
                                             \/ Under(goal[s], q)
    BY DEF vars
  <2>1. PICK s \in Sessions : Act(s)
    BY DEF Next, Act
  <2>2. Unlink(s) \/ Rmd(s) \/ UnlinkEntry(s) \/ Rmdir(s)
    BY <2>1, WhoRemoves
  <2>3. Removing(s)
    BY <2>1, WhoRemoves
  <2>4. at[s] \in {"unlink", "rmdir", "remove"}
    BY <2>2 DEF Unlink, Rmd, UnlinkEntry, Rmdir
  <2>5. at'[s] # at[s]
    <3>1. at'[s] \in {"idle", "readdir"}
      <4>1. (\E code : Answer(s, code)) \/ Goto(s, "readdir", <<>>)
        BY <2>2, Zenon DEF Unlink, Rmd, UnlinkEntry, Rmdir, Return, Deleted
      <4> QED BY <4>1 DEF DeleteInv, FilesInv, Types, Answer, Goto
    <3> QED BY <2>4, <3>1
  <2>6. op[s].cmd \in {"DELE", "RMD"}
    BY <2>2, <2>4 DEF Rmd, Rmdir, Unlink, UnlinkEntry, DeleteInv, WalkInv, OwnCall
  <2>7. WalkAt(s, at[s], entry[s], stack[s])
    BY <2>4, <2>6 DEF DeleteInv, WalkInv, Walk
  <2>8. q = LResolve(s, entry[s])
    BY <2>3 DEF Removing, Change, DeleteInv, FilesInv, Types
  <2>9. entry[s] \in Path /\ Near(s, entry[s])
    BY <2>4, <2>7, Session1 DEF DeleteInv, WalkAt
  <2>10. Under(op[s].path, q) \/ Under(goal[s], q)
    BY <2>7, <2>8, <2>9, NearGoal DEF WalkAt
  <2> QED BY <2>5, <2>6, <2>10
<1> QED BY <1>1, DeleteSafe, PTL DEF Spec, OnlyNamed

(* What is under the path of a call that removes something is gone.        *)
LEMMA AllGone ==
  ASSUME DeleteInv, NEW s \in Sessions, Removing(s), NEW q \in Paths,
         Under(LResolve(s, entry[s]), q)
  PROVE  kind'[q] = "none"
<1> DEFINE p == LResolve(s, entry[s])
<1>1. Removed(p)
  BY UnlinkEffect DEF Removing, DeleteInv
<1> HIDE DEF p
<1>2. /\ p \in Paths /\ p # <<>> /\ p \in Path
      /\ Kind(p) # "dir" \/ Names(p) = {}
      /\ kind' = [kind EXCEPT ![p] = "none"]
      /\ kind \in [Paths -> Kinds]
  BY <1>1, PathOf DEF Removed, Kind, DeleteInv, FilesInv, Types
<1>3. CASE q = p
  BY <1>2, <1>3
<1>4. CASE q # p
  <2>1. Under(p, q)
    BY DEF p
  <2>2. kind[q] = "none"
    BY <1>2, <1>4, <2>1, NothingBelow DEF DeleteInv
  <2> QED BY <1>2, <1>4, <2>2
<1> QED BY <1>3, <1>4

LEMMA WhoSays250 ==
  ASSUME DeleteInv, NEW s \in Sessions, Act(s), Ends(s),
         op[s].cmd \in {"DELE", "RMD"}, ~op[s].force, reply'[s] = 250
  PROVE  Removing(s) /\ entry[s] = op[s].path
<1>1. at[s] # "idle"
  BY DEF Ends
<1>2. WalkAt(s, at[s], entry[s], stack[s]) /\ OwnCall(s)
  BY <1>1 DEF DeleteInv, WalkInv, Walk
<1>3. ASSUME NEW code, Answer(s, code)
      PROVE  code = 250
  BY <1>3 DEF Answer
<1>4. ~Answer(s, 550) /\ ~Deleted(s, FALSE)
  BY <1>3 DEF Deleted
<1>5. ~Silent
  BY DEF Silent
<1>6. ~Stat(s)
  BY <1>4, <1>5, Zenon DEF Stat, DeleStat, MkdStat, RmdStat, CwdStat, Goto
<1>7. ~OpenDir(s) /\ ~ReadDir(s) /\ ~Lstat(s) /\ ~UnlinkEntry(s)
  BY <1>4, <1>5, Zenon DEF OpenDir, ReadDir, Lstat, UnlinkEntry, Goto
<1>8. ~Mkdir(s) /\ ~Chdir(s)
  BY <1>2 DEF OwnCall, Mkdir, Chdir
<1>9. Unlink(s) \/ Rmd(s) \/ Rmdir(s)
  <2>1. ~Ready(s) /\ ~LoginStep(s)
    BY <1>1 DEF Ready, LoginStep
  <2>2. /\ ~handle_dele_command(s) /\ ~cftp_mkd_authenticated_action(s)
        /\ ~cftp_rmd_authenticated_action(s) /\ ~cftp_cwd_authenticated_action(s)
    BY <2>1, Zenon DEF handle_dele_command, cftp_mkd_authenticated_action,
       cftp_rmd_authenticated_action, cftp_cwd_authenticated_action, Begin
  <2>3. /\ ~cftp_size_authenticated_action(s) /\ ~handle_mdtm_command(s)
        /\ ~cftp_pwd_authenticated_action(s) /\ ~StorOpen(s)
    BY <2>1 DEF cftp_size_authenticated_action, handle_mdtm_command,
       cftp_pwd_authenticated_action, StorOpen
  <2> QED BY <1>6, <1>7, <1>8, <2>1, <2>2, <2>3 DEF Act, Call
<1>10. Removing(s)
  BY <1>4, <1>9, Zenon DEF Unlink, Rmd, Rmdir, Removing
<1>11. entry[s] = op[s].path
  <2>1. CASE Unlink(s) \/ Rmd(s)
    BY <1>2, <2>1 DEF Unlink, Rmd, WalkAt
  <2>2. CASE Rmdir(s)
    <3>1. at[s] = "rmdir" /\ op[s].cmd = "DELE"
      BY <2>2 DEF Rmdir
    <3>2. Return(s)
      BY <1>4, <2>2, Zenon DEF Rmdir
    <3>3. Len(stack[s]) = 1
      BY <1>5, <3>2, Zenon DEF Return, Goto
    <3>4. stack[s] # <<>>
      BY <3>1, Walking
    <3> QED BY <1>2, <3>1, <3>3, <3>4 DEF WalkAt
  <2> QED BY <1>9, <2>1, <2>2
<1> QED BY <1>10, <1>11

(* Without -f, 250 says that nothing is left at the path, whatever other   *)
(* sessions created while the walk went on.                                *)
THEOREM RepliesHonest == Spec => HonestReply
<1> DEFINE Honest ==
      \A s \in Sessions :
          /\ Ends(s)
          /\ op[s].cmd \in {"DELE", "RMD"}
          /\ ~op[s].force
          /\ reply'[s] = 250
          => \A q \in Paths : Under(LResolve(s, op[s].path), q) => kind'[q] = "none"
<1>1. DeleteInv /\ [Next]_vars => [Honest]_vars
  <2> SUFFICES ASSUME DeleteInv, Next, NEW s \in Sessions, Ends(s),
                      op[s].cmd \in {"DELE", "RMD"}, ~op[s].force, reply'[s] = 250,
                      NEW q \in Paths, Under(LResolve(s, op[s].path), q)
               PROVE  kind'[q] = "none"
    BY DEF vars
  <2>1. PICK u \in Sessions : Act(u)
    BY DEF Next, Act
  <2>2. u = s
    <3> SUFFICES ASSUME u # s PROVE FALSE
      OBVIOUS
    <3>1. Kept(s)
      BY <2>1, ActKept DEF DeleteInv
    <3> QED BY <3>1 DEF Kept, Ends
  <2>3. Removing(s) /\ entry[s] = op[s].path
    BY <2>1, <2>2, WhoSays250
  <2> QED BY <2>3, AllGone
<1> QED BY <1>1, DeleteSafe, PTL DEF Spec, HonestReply

-----------------------------------------------------------------------------
(* What DELE -r leaves behind                                              *)

(* What the path p of the walk is in the tree.                             *)
Real(t, p) == goal[t] \o SubSeq(p, Len(op[t].path) + 1, Len(p))

(* DELE -r of something its user may remove, which the path still leads    *)
(* to, and no other session changed anything.                              *)
Alone(t) ==
    /\ op[t].cmd = "DELE" /\ op[t].recursive
    /\ ~disturbed[t]
    /\ goal[t] = LResolve(t, op[t].path) /\ goal[t] # conn[t].root
    /\ \A d \in ReadOnly : d # Front(goal[t]) /\ ~Under(goal[t], d)

(* p is the entry of directory f the walk is at; the others are to come.   *)
Child(t, f, p) ==
    \E n \in Name : /\ p = Append(f.path, n)
                    /\ Names(Real(t, f.path)) \subseteq f.old \cup {n}

(* Every directory on the stack is there and keeps nothing but what was    *)
(* not read yet and the entry that is looked at; what was found out about  *)
(* an entry is still true.                                                 *)
ClearAt(t, a, e, k) ==
    /\ \A i \in 1..Len(k) : Kind(Real(t, k[i].path)) = "dir"
    /\ \A i \in 1..(Len(k) - 1) : Child(t, k[i], k[i + 1].path)
    /\ a = "unlink" => Kind(goal[t]) = "file"
    /\ a = "opendir" => Kind(Real(t, e)) = "dir"
    /\ a = "remove" => Kind(Real(t, e)) \in {"file", "link"}
    /\ a \in {"lstat", "remove"} \/ (a = "opendir" /\ k # <<>>) => Child(t, k[Len(k)], e)
    /\ a = "readdir" => Names(Real(t, k[Len(k)].path)) \subseteq k[Len(k)].old
    /\ a = "rmdir" => Names(Real(t, k[Len(k)].path)) = {}

Clears(t) == at[t] # "idle" /\ Alone(t) => ClearAt(t, at[t], entry[t], stack[t])

CompleteInv == DeleteInv /\ \A t \in Sessions : Clears(t)

(* The path that was named leads to the goal.                              *)
LEMMA GoalIs ==
  ASSUME DeleteInv, NEW s \in Sessions, Alone(s),
         Links(op[s].path) # {} => goal[s] = Resolve(s, op[s].path)
  PROVE  goal[s] = Resolve(s, op[s].path)
<1> DEFINE p == op[s].path
<1>1. p \in Path /\ Shaped
  BY Named1
<1>2. CASE Links(p) = {}
  <2>1. LResolve(s, p) = p
    BY <1>1, <1>2, LResolveLink
  <2>2. Resolve(s, p) = p
    BY <1>2 DEF Resolve
  <2> QED BY <2>1, <2>2 DEF Alone
<1> QED BY <1>2

LEMMA RealInside ==
  ASSUME DeleteInv, NEW s \in Sessions, Alone(s), NEW p \in Path, Inside(s, p),
         Links(op[s].path) # {} => goal[s] = Resolve(s, op[s].path)
  PROVE  Resolve(s, p) = Real(s, p)
<1>1. goal[s] = Resolve(s, op[s].path)
  BY GoalIs
<1>2. /\ op[s].path \in Path /\ conn[s].root \in Seq(Name) /\ Shaped /\ LinksKept
      /\ Under(op[s].path, p) /\ Links(p) \subseteq 1..Len(op[s].path)
  BY Named1 DEF Inside
<1>3. Resolve(s, p) = Resolve(s, op[s].path) \o SubSeq(p, Len(op[s].path) + 1, Len(p))
  BY <1>2, ResolveUnder, Zenon
<1> QED BY <1>1, <1>3, Zenon DEF Real

LEMMA RealSelf ==
  ASSUME DeleteInv, NEW s \in Sessions
  PROVE  Real(s, op[s].path) = goal[s]
<1> DEFINE p == op[s].path
<1>1. p \in Path /\ goal[s] \in Path
  BY Named1
<1>2. Len(p) \in 0..Len(p) /\ Len(p) \in Nat
  BY <1>1 DEF Path
<1>3. /\ SubSeq(p, Len(p) + 1, Len(p)) \in Path
      /\ Len(SubSeq(p, Len(p) + 1, Len(p))) = Len(p) - Len(p)
  BY <1>1, <1>2, RestIs DEF Path
<1>4. SubSeq(p, Len(p) + 1, Len(p)) = <<>>
  BY <1>2, <1>3 DEF Path
<1>5. goal[s] \o <<>> = goal[s]
  BY <1>1 DEF Path
<1> QED BY <1>4, <1>5 DEF Real

LEMMA RealNear ==
  ASSUME DeleteInv, NEW s \in Sessions, Alone(s), NEW e \in Path, Near(s, e),
         Links(op[s].path) # {} => goal[s] = Resolve(s, op[s].path)
  PROVE  LResolve(s, e) = Real(s, e)
<1>1. CASE e = op[s].path
  BY <1>1, RealSelf DEF Alone
<1>2. CASE e # op[s].path
  <2>1. goal[s] = Resolve(s, op[s].path)
    BY GoalIs
  <2>2. /\ op[s].path \in Path /\ conn[s].root \in Seq(Name) /\ Shaped /\ LinksKept
        /\ e # <<>> /\ Under(op[s].path, Front(e))
        /\ Links(Front(e)) \subseteq 1..Len(op[s].path)
    BY <1>2, Named1 DEF Near, Inside
  <2>3. LResolve(s, e) = Resolve(s, op[s].path) \o SubSeq(e, Len(op[s].path) + 1, Len(e))
    BY <2>2, LResolveUnder, Zenon
  <2> QED BY <2>1, <2>3, Zenon DEF Real
<1> QED BY <1>1, <1>2

LEMMA RealAppend ==
  ASSUME DeleteInv, NEW s \in Sessions, NEW p \in Path, Under(op[s].path, p), NEW n \in Name
  PROVE  /\ Real(s, p) \in Path
         /\ Real(s, Append(p, n)) = Append(Real(s, p), n)
<1> DEFINE h == op[s].path
           x == SubSeq(p, Len(h) + 1, Len(p))
           e == Append(p, n)
<1>1. h \in Path /\ goal[s] \in Path
  BY Named1
<1>2. e \in Path /\ e # <<>> /\ Front(e) = p /\ Last(e) = n
  BY FrontAppend DEF Path
<1> HIDE DEF e
<1>3. x \in Path /\ Append(x, n) = SubSeq(e, Len(h) + 1, Len(e))
  BY <1>1, <1>2, AppendRest DEF Path
<1>4. Append(goal[s] \o x, n) = goal[s] \o Append(x, n)
  <2>1. n \in Name \cup {None}
    OBVIOUS
  <2> QED BY <1>1, <1>3, <2>1, AppendConcat, Zenon
<1>5. goal[s] \o x \in Path
  BY <1>1, <1>3, ConcatUnder DEF Path
<1> QED BY <1>3, <1>4, <1>5 DEF Real, e

(* The path that was named is in the home, or nowhere.                     *)
LEMMA GoalIn ==
  ASSUME DeleteInv, NEW s \in Sessions, at[s] # "idle", Alone(s),
         WalkAt(s, at[s], entry[s], stack[s])
  PROVE  /\ In(conn[s].root, goal[s]) /\ goal[s] # <<>>
         /\ conn[s].root \in Path /\ conn[s].root # <<>>
<1> DEFINE r == conn[s].root
           p == op[s].path
<1>1. /\ Held(conn[s], at[s], entry[s], stack[s], op[s]) /\ Complete(conn[s])
      /\ r \in Seq(Name) /\ stack[s] \in Seq(Frame)
  BY Session1 DEF DeleteInv
<1>2. p \in Path /\ goal[s] \in Path /\ LinksKept
  BY Named1
<1>3. conn[s].authenticated /\ conn[s].username \in Users /\ r = Home[conn[s].username]
  BY <1>1 DEF Held, Complete
<1>4. r # <<>> /\ r \in Path
  BY <1>1, <1>3, LoginAssumption, NamePath
<1>5. In(r, p)
  <2>1. CASE stack[s] = <<>>
    <3>1. at[s] # "readdir"
      BY <1>1, <2>1 DEF Held
    <3> QED BY <1>1, <2>1, <3>1 DEF Held, WalkAt
  <2>2. CASE stack[s] # <<>>
    <3>1. 1 \in 1..Len(stack[s])
      BY <1>1, <2>2
    <3> QED BY <1>1, <2>2, <3>1 DEF Held, WalkAt
  <2> QED BY <2>1, <2>2
<1>6. In(r, LResolve(s, p))
  BY <1>2, <1>3, <1>5, LResolveIn
<1>7. In(r, goal[s])
  BY <1>6 DEF Alone
<1>8. goal[s] # <<>>
  <2> SUFFICES ASSUME goal[s] = <<>> PROVE FALSE
    OBVIOUS
  <2>1. Len(goal[s]) = 0 /\ Len(r) # 0 /\ Len(r) \in Nat
    BY <1>1, <1>4
  <2>2. ~Lost(goal[s])
    BY <2>1 DEF Lost
  <2>3. ~Under(r, goal[s])
    <3> HIDE DEF r
    <3>1. Under(r, goal[s]) => Len(r) <= Len(goal[s])
      BY <1>2, <1>4, UnderDef DEF Path
    <3> QED BY <2>1, <3>1
  <2> QED BY <1>7, <2>2, <2>3 DEF In
<1> QED BY <1>4, <1>7, <1>8

(* What the walk finds it may remove.                                      *)
LEMMA MayChange ==
  ASSUME DeleteInv, NEW s \in Sessions, at[s] # "idle", Alone(s),
         WalkAt(s, at[s], entry[s], stack[s]),
         NEW q \in Paths, kind[q] # "none", Under(goal[s], q)
  PROVE  Writable(s, q)
<1> DEFINE r == conn[s].root
           g == goal[s]
           d == Front(q)
<1>1. In(r, g) /\ r \in Path /\ r # <<>> /\ g \in Path /\ q \in Path /\ Shaped
  BY GoalIn, Named1, PathOf
<1>2. Under(r, g)
  <2> SUFFICES ASSUME Lost(g) PROVE FALSE
    BY <1>1 DEF In
  <2>1. Len(g) <= Len(q) /\ \A i \in 1..Len(g) : g[i] = q[i]
    BY <1>1, UnderDef DEF Path
  <2>2. Len(g) >= 1 /\ g[1] = None /\ Len(g) \in Nat /\ Len(q) \in Nat
    BY <1>1 DEF Lost, Path
  <2>3. Lost(q)
    <3>1. 1 \in 1..Len(g) /\ Len(q) >= 1
      BY <2>1, <2>2
    <3> QED BY <2>1, <2>2, <3>1 DEF Lost
  <2> QED BY <1>1, <2>3, LostNowhere
<1>3. Under(r, q)
  BY <1>1, <1>2, UnderTrans DEF Path
<1>4. g # r
  BY DEF Alone
<1>5. q # r
  <2> SUFFICES ASSUME q = r PROVE FALSE
    OBVIOUS
  <2>1. Len(g) <= Len(r) /\ Len(r) <= Len(g) /\ \A i \in 1..Len(g) : g[i] = r[i]
    BY <1>1, <1>2, UnderDef DEF Path
  <2>2. Len(g) \in Nat /\ Len(r) \in Nat
    BY <1>1 DEF Path
  <2>3. Len(g) = Len(r)
    BY <2>1, <2>2
  <2> QED BY <1>1, <1>4, <2>1, <2>3, SeqEqual DEF Path
<1>6. q # <<>> /\ Under(r, d)
  BY <1>1, <1>3, <1>5, UnderFront DEF Path
<1>7. d \in Path /\ Len(d) = Len(q) - 1 /\ Under(d, q) /\ Len(q) \in Nat
  BY <1>1, <1>6, FrontUnder DEF Path
<1>8. d # <<>> /\ d # q
  <2>1. Len(r) <= Len(d) /\ Len(r) \in Nat /\ Len(r) # 0
    BY <1>1, <1>6, <1>7, UnderDef DEF Path
  <2> QED BY <1>7, <2>1
<1>9. Kind(d) = "dir"
  BY <1>1, <1>7, <1>8, Above
<1>10. d \notin ReadOnly
  <2>1. CASE q = g
    BY <2>1 DEF Alone
  <2>2. CASE q # g
    <3>1. Under(g, d)
      BY <1>1, <2>2, UnderFront DEF Path
    <3> QED BY <3>1 DEF Alone
  <2> QED BY <2>1, <2>2
<1> QED BY <1>5, <1>6, <1>9, <1>10 DEF Writable

-----------------------------------------------------------------------------
(* Who is alone after a step was alone before it                           *)

LEMMA LResolveKept ==
  ASSUME NEW t, conn'[t].root = conn[t].root, kind' = kind
  PROVE  \A p : LResolve(t, p)' = LResolve(t, p)
<1>1. \A p : Resolve(t, p)' = Resolve(t, p)
  BY SameLinks, ResolveKept
<1> QED BY <1>1 DEF LResolve

LEMMA AloneOther ==
  ASSUME DeleteInv, NEW s \in Sessions, Act(s), NEW t \in Sessions \ {s},
         at[t] # "idle", Alone(t)'
  PROVE  Alone(t) /\ kind' = kind
<1>1. Effect(s) /\ Kept(t)
  BY ActEffect, ActKept DEF DeleteInv
<1>2. kind' = kind /\ ~disturbed[t] /\ conn'[t].root = conn[t].root
  BY <1>1 DEF Effect, Alone
<1>3. LResolve(t, op[t].path)' = LResolve(t, op[t].path)
  BY <1>1, <1>2, LResolveKept DEF Kept
<1> QED BY <1>1, <1>2, <1>3 DEF Alone, Kept

(* The session's own removal of a link on the path that was named.         *)
LEMMA AloneOwn ==
  ASSUME DeleteInv, NEW s \in Sessions, at[s] # "idle", conn'[s].root = conn[s].root,
         \A p : Links(p)' \subseteq Links(p), WalkAt(s, at[s], entry[s], stack[s]),
         op'[s] = op[s], goal'[s] = goal[s], ~disturbed'[s] => ~disturbed[s], Alone(s)'
  PROVE  Alone(s)
<1> DEFINE p == op[s].path
<1>1. p \in Path /\ Shaped /\ LinksKept /\ conn[s].root \in Seq(Name)
  BY Named1
<1>2. goal[s] = LResolve(s, p)
  <2>1. CASE Links(p) # {} /\ Len(p) \notin Links(p)
    BY <1>1, <2>1, LResolveSame DEF WalkAt
  <2>2. CASE Links(p) = {} \/ Len(p) \in Links(p)
    <3>1. LResolve(s, p) = p
      BY <1>1, <2>2, LResolveLink
    <3>2. CASE p = <<>>
      BY <3>1, <3>2 DEF Alone, LResolve
    <3>3. CASE p # <<>>
      <4>1. Front(p) \in Path /\ Under(Front(p), p) /\ Len(Front(p)) = Len(p) - 1
            /\ Len(p) \in Nat /\ Append(Front(p), Last(p)) = p
        <5> HIDE DEF p
        <5>1. Front(p) \in Path /\ Under(Front(p), p) /\ Len(Front(p)) = Len(p) - 1
          BY <1>1, <3>3, FrontUnder DEF Path
        <5>2. Len(p) \in Nat
          BY <1>1 DEF Path
        <5>3. Append(Front(p), Last(p)) = p
          BY <1>1, <3>3, FrontLast DEF Path
        <5> QED BY <5>1, <5>2, <5>3
      <4>2. Links(Front(p)) = {}
        <5> SUFFICES ASSUME NEW i \in Links(Front(p)) PROVE FALSE
          OBVIOUS
        <5>1. i \in 1..Len(Front(p)) /\ i \in Links(p)
          BY <1>1, <4>1, LinksOf, LinksUnder
        <5>2. i = Len(p)
          BY <1>1, <2>2, <5>1, OneLink
        <5> QED BY <4>1, <5>1, <5>2
      <4>3. Links(Front(p))' = {}
        BY <4>2
      <4>4. LResolve(s, p)' = p
        BY <3>3, <4>1, <4>3 DEF LResolve, Resolve
      <4> QED BY <3>1, <4>4 DEF Alone
    <3> QED BY <3>2, <3>3
  <2> QED BY <2>1, <2>2
<1> QED BY <1>2 DEF Alone

-----------------------------------------------------------------------------
(* The walk clears what it leaves                                          *)

LEMMA ClearGoes ==
  ASSUME NEW t \in Sessions, kind' = kind, NEW a, NEW e, NEW k, ClearAt(t, a, e, k),
         at'[t] = a, entry'[t] = e, stack'[t] = k, op'[t] = op[t], goal'[t] = goal[t]
  PROVE  Clears(t)'
<1>1. \A p : Kind(p)' = Kind(p)
  BY DEF Kind
<1>2. \A p : Names(p)' = Names(p)
  BY <1>1 DEF Names
<1>3. \A p : Real(t, p)' = Real(t, p)
  BY DEF Real
<1>4. \A p : Kind(Real(t, p))' = Kind(Real(t, p)) /\ Names(Real(t, p))' = Names(Real(t, p))
  BY <1>1, <1>2, <1>3
<1>5. \A f, p : Child(t, f, p) => Child(t, f, p)'
  BY <1>4 DEF Child
<1>6. (\A i \in 1..Len(stack[t]) : Kind(Real(t, stack[t][i].path)) = "dir")'
  BY <1>4 DEF ClearAt
<1>7. (\A i \in 1..(Len(stack[t]) - 1) : Child(t, stack[t][i], stack[t][i + 1].path))'
  BY <1>5 DEF ClearAt
<1>8. /\ (at[t] = "unlink" => Kind(goal[t]) = "file")'
      /\ (at[t] = "opendir" => Kind(Real(t, entry[t])) = "dir")'
      /\ (at[t] = "remove" => Kind(Real(t, entry[t])) \in {"file", "link"})'
  BY <1>1, <1>4 DEF ClearAt
<1>9. (at[t] \in {"lstat", "remove"} \/ (at[t] = "opendir" /\ stack[t] # <<>>)
         => Child(t, stack[t][Len(stack[t])], entry[t]))'
  BY <1>5 DEF ClearAt
<1>10. /\ (at[t] = "readdir" => Names(Real(t, stack[t][Len(stack[t])].path))
                                   \subseteq stack[t][Len(stack[t])].old)'
       /\ (at[t] = "rmdir" => Names(Real(t, stack[t][Len(stack[t])].path)) = {})'
  BY <1>4 DEF ClearAt
<1>11. ClearAt(t, at[t], entry[t], stack[t])'
  BY <1>6, <1>7, <1>8, <1>9, <1>10 DEF ClearAt
<1> QED BY <1>11 DEF Clears

(* A step of a walk that goes on.                                          *)
LEMMA StillAlone ==
  ASSUME CompleteInv, NEW s \in Sessions, Effect(s), at[s] # "idle", at'[s] # "idle",
         NoChange(s) \/ \E q, k : Change(s, q, k),
         op'[s] = op[s], goal'[s] = goal[s], Alone(s)'
  PROVE  /\ Alone(s) /\ op[s].cmd = "DELE" /\ WalkAt(s, at[s], entry[s], stack[s])
         /\ ClearAt(s, at[s], entry[s], stack[s])
<1>1. op[s].cmd = "DELE"
  BY DEF Alone
<1>2. WalkAt(s, at[s], entry[s], stack[s])
  BY <1>1 DEF CompleteInv, DeleteInv, WalkInv, Walk
<1>3. conn'[s].root = conn[s].root /\ \A p : Links(p)' \subseteq Links(p)
  BY LinksShrink DEF Effect, CompleteInv, DeleteInv
<1>4. ~disturbed'[s] => ~disturbed[s]
  <2>1. CASE NoChange(s)
    BY <2>1 DEF NoChange, CompleteInv, DeleteInv, OtherTypes
  <2>2. CASE \E q, k : Change(s, q, k)
    BY <2>2 DEF Change
  <2> QED BY <2>1, <2>2
<1>5. Alone(s)
  BY <1>2, <1>3, <1>4, AloneOwn DEF CompleteInv
<1> QED BY <1>1, <1>2, <1>5 DEF CompleteInv, Clears

LEMMA GotoClears ==
  ASSUME CompleteInv, NEW s \in Sessions, NoChange(s), at[s] # "idle",
         NEW a, NEW e, NEW k, a # "idle", Goto(s, a, e), stack' = [stack EXCEPT ![s] = k],
         /\ Alone(s) /\ op[s].cmd = "DELE" /\ WalkAt(s, at[s], entry[s], stack[s])
         /\ ClearAt(s, at[s], entry[s], stack[s])
         => ClearAt(s, a, e, k)
  PROVE  Clears(s)'
<1>1. /\ at'[s] = a /\ entry'[s] = e /\ stack'[s] = k
      /\ op'[s] = op[s] /\ goal'[s] = goal[s]
  BY DEF CompleteInv, DeleteInv, FilesInv, Types, Goto
<1>2. CASE Alone(s)'
  <2>1. Effect(s)
    BY NoChangeEffect DEF CompleteInv, DeleteInv
  <2>2. ClearAt(s, a, e, k)
    BY <1>1, <1>2, <2>1, StillAlone
  <2>3. kind' = kind
    BY DEF NoChange
  <2> QED BY <1>1, <2>2, <2>3, ClearGoes
<1>3. CASE ~Alone(s)'
  BY <1>3 DEF Clears
<1> QED BY <1>2, <1>3

LEMMA AnswerClears ==
  ASSUME CompleteInv, NEW s \in Sessions, NEW code, Answer(s, code)
  PROVE  Clears(s)'
<1>1. at'[s] = "idle"
  BY DEF CompleteInv, DeleteInv, FilesInv, Types, Answer
<1> QED BY <1>1 DEF Clears

LEMMA StatClears ==
  ASSUME CompleteInv, NEW s \in Sessions, Stat(s)
  PROVE  Clears(s)'
<1>1. at[s] = "stat" /\ NoChange(s)
  BY DEF Stat
<1>2. CASE \E code : Answer(s, code)
  BY <1>2, AnswerClears
<1>3. ASSUME NEW a \in {"opendir", "unlink", "mkdir", "rmdir", "chdir"},
             Goto(s, a, entry[s]), UNCHANGED stack,
             a = "opendir" => stat(s, entry[s]) = "dir",
             a = "unlink" => stat(s, entry[s]) = "file",
             a \notin {"opendir", "unlink"} => op[s].cmd # "DELE"
      PROVE  Clears(s)'
  <2>1. stack' = [stack EXCEPT ![s] = stack[s]]
    BY <1>3, SameStack DEF CompleteInv, DeleteInv
  <2>2. ASSUME Alone(s), op[s].cmd = "DELE", WalkAt(s, at[s], entry[s], stack[s])
        PROVE  ClearAt(s, a, entry[s], stack[s])
    <3>1. stack[s] = <<>> /\ entry[s] = op[s].path
      BY <1>1, <2>2 DEF WalkAt
    <3>2. Resolve(s, entry[s]) = goal[s] /\ Real(s, entry[s]) = goal[s]
      BY <2>2, <3>1, GoalIs, RealSelf DEF WalkAt, CompleteInv
    <3>3. /\ a = "opendir" => Kind(Real(s, entry[s])) = "dir"
          /\ a = "unlink" => Kind(goal[s]) = "file"
          /\ a \in {"opendir", "unlink"}
      BY <1>3, <2>2, <3>2 DEF stat
    <3>4. Len(stack[s]) = 0
      BY <3>1
    <3> QED BY <3>1, <3>3, <3>4 DEF ClearAt
  <2> QED BY <1>1, <1>3, <2>1, <2>2, GotoClears
<1>4. CASE DeleStat(s)
  <2>1. \/ \E code : Answer(s, code)
        \/ /\ stat(s, entry[s]) = "dir"
           /\ Goto(s, "opendir", entry[s]) /\ UNCHANGED stack
        \/ /\ stat(s, entry[s]) = "file"
           /\ Goto(s, "unlink", entry[s]) /\ UNCHANGED stack
    BY <1>4 DEF DeleStat, Deleted
  <2> QED BY <1>2, <1>3, <2>1
<1>5. CASE MkdStat(s)
  <2>1. \/ \E code : Answer(s, code)
        \/ op[s].cmd = "MKD" /\ Goto(s, "mkdir", entry[s]) /\ UNCHANGED stack
    BY <1>5, Zenon DEF MkdStat
  <2> QED BY <1>2, <1>3, <2>1
<1>6. CASE RmdStat(s)
  <2>1. \/ \E code : Answer(s, code)
        \/ op[s].cmd = "RMD" /\ Goto(s, "rmdir", entry[s]) /\ UNCHANGED stack
    BY <1>6, Zenon DEF RmdStat
  <2> QED BY <1>2, <1>3, <2>1
<1>7. CASE CwdStat(s)
  <2>1. \/ \E code : Answer(s, code)
        \/ op[s].cmd = "CWD" /\ Goto(s, "chdir", entry[s]) /\ UNCHANGED stack
    BY <1>7, Zenon DEF CwdStat
  <2> QED BY <1>2, <1>3, <2>1
<1> QED BY <1>4, <1>5, <1>6, <1>7 DEF Stat

LEMMA OpenDirClears ==
  ASSUME CompleteInv, NEW s \in Sessions, OpenDir(s)
  PROVE  Clears(s)'
<1>1. at[s] = "opendir" /\ NoChange(s)
  BY DEF OpenDir
<1>2. CASE stat(s, entry[s]) # "dir"
  BY <1>2, AnswerClears DEF OpenDir, Deleted
<1>3. CASE stat(s, entry[s]) = "dir"
  <2> DEFINE f == [path |-> entry[s], seen |-> {}, old |-> Names(Resolve(s, entry[s]))]
             k == Append(stack[s], f)
             m == Len(stack[s])
  <2>1. stack' = [stack EXCEPT ![s] = k] /\ Goto(s, "readdir", <<>>)
    BY <1>3 DEF OpenDir
  <2>2. stack[s] \in Seq(Frame) /\ m \in Nat /\ entry[s] \in Path
    BY <1>1, Walking, Session1 DEF CompleteInv, DeleteInv
  <2>3. f \in Frame /\ f.path = entry[s] /\ f.old = Names(Resolve(s, entry[s]))
    BY <2>2 DEF Frame, Names
  <2> HIDE DEF f
  <2>4. Len(k) = m + 1 /\ (\A i \in 1..m : k[i] = stack[s][i]) /\ k[m + 1] = f
    BY <2>2, <2>3, AppendProperties
  <2> HIDE DEF k
  <2>5. ASSUME Alone(s), op[s].cmd = "DELE", WalkAt(s, at[s], entry[s], stack[s]),
               ClearAt(s, at[s], entry[s], stack[s])
        PROVE  ClearAt(s, "readdir", <<>>, k)
    <3>1. Resolve(s, entry[s]) = Real(s, entry[s])
      BY <1>1, <2>2, <2>5, RealInside DEF WalkAt, CompleteInv
    <3>2. Kind(Real(s, entry[s])) = "dir"
      BY <1>1, <2>5 DEF ClearAt
    <3>3. ASSUME NEW i \in 1..Len(k)
          PROVE  Kind(Real(s, k[i].path)) = "dir"
      <4>1. i \in 1..m \/ i = m + 1
        BY <2>2, <2>4
      <4> QED BY <2>3, <2>4, <2>5, <3>2, <4>1 DEF ClearAt
    <3>4. ASSUME NEW i \in 1..(Len(k) - 1)
          PROVE  Child(s, k[i], k[i + 1].path)
      <4>1. i \in 1..m /\ m # 0
        BY <2>2, <2>4
      <4>2. CASE i = m
        <5>1. stack[s] # <<>>
          BY <4>1
        <5>2. Child(s, stack[s][m], entry[s])
          BY <1>1, <2>5, <5>1 DEF ClearAt
        <5> QED BY <2>3, <2>4, <4>1, <4>2, <5>2
      <4>3. CASE i # m
        <5>1. i \in 1..(m - 1) /\ i + 1 \in 1..m
          BY <2>2, <4>1, <4>3
        <5> QED BY <2>4, <2>5, <4>1, <5>1 DEF ClearAt
      <4> QED BY <4>2, <4>3
    <3>5. Names(Real(s, k[Len(k)].path)) \subseteq k[Len(k)].old
      BY <2>3, <2>4, <3>1
    <3> QED BY <3>3, <3>4, <3>5 DEF ClearAt
  <2> QED BY <1>1, <2>1, <2>5, GotoClears
<1> QED BY <1>2, <1>3

LEMMA ReadDirClears ==
  ASSUME CompleteInv, NEW s \in Sessions, ReadDir(s)
  PROVE  Clears(s)'
<1> DEFINE m == Len(stack[s])
           top == Last(stack[s])
<1>1. at[s] = "readdir" /\ NoChange(s)
  BY DEF ReadDir
<1>2. stack[s] \in Seq(Frame) /\ stack[s] # <<>> /\ m \in Nat /\ m >= 1
  BY <1>1, Walking DEF CompleteInv
<1>3. top = stack[s][m]
  BY <1>2, FrontLast
<1>4. ASSUME NEW n \in top.old \cup (Names(Resolve(s, top.path)) \ top.seen),
             stack' = [stack EXCEPT ![s] = ReadStack(s, n)],
             Goto(s, "lstat", Append(top.path, n))
      PROVE  Clears(s)'
  <2> DEFINE k == ReadStack(s, n)
             f == ReadFrame(s, n)
  <2>1. /\ n \in Name /\ f.path = top.path /\ f.old = top.old \ {n}
        /\ k # <<>> /\ Len(k) = m /\ k[m] = f
        /\ \A i \in 1..(m - 1) : k[i] = stack[s][i]
    BY <1>1, ReadFrames DEF CompleteInv
  <2> HIDE DEF k, f, top
  <2>2. ASSUME Alone(s), op[s].cmd = "DELE", WalkAt(s, at[s], entry[s], stack[s]),
               ClearAt(s, at[s], entry[s], stack[s])
        PROVE  ClearAt(s, "lstat", Append(top.path, n), k)
    <3>1. \A i \in 1..m : k[i].path = stack[s][i].path
      <4> SUFFICES ASSUME NEW i \in 1..m PROVE k[i].path = stack[s][i].path
        OBVIOUS
      <4>1. i \in 1..(m - 1) \/ i = m
        BY <1>2
      <4> QED BY <1>3, <2>1, <4>1
    <3>2. \A i \in 1..Len(k) : Kind(Real(s, k[i].path)) = "dir"
      BY <2>1, <2>2, <3>1 DEF ClearAt
    <3>3. ASSUME NEW i \in 1..(Len(k) - 1)
          PROVE  Child(s, k[i], k[i + 1].path)
      <4>1. i \in 1..(m - 1) /\ i + 1 \in 1..m
        BY <1>2, <2>1
      <4>2. Child(s, stack[s][i], stack[s][i + 1].path)
        BY <2>2, <4>1 DEF ClearAt
      <4> QED BY <2>1, <3>1, <4>1, <4>2
    <3>4. Names(Real(s, top.path)) \subseteq top.old
      BY <1>1, <1>3, <2>2 DEF ClearAt
    <3>5. Child(s, k[Len(k)], Append(top.path, n))
      BY <2>1, <3>4 DEF Child
    <3> QED BY <3>2, <3>3, <3>5 DEF ClearAt
  <2>3. stack' = [stack EXCEPT ![s] = k]
    BY <1>4 DEF k
  <2> QED BY <1>1, <1>4, <2>2, <2>3, GotoClears
<1>5. CASE top.old = {} /\ stack' = stack /\ Goto(s, "rmdir", top.path)
  <2>1. stack' = [stack EXCEPT ![s] = stack[s]]
    BY <1>5, SameStack DEF CompleteInv, DeleteInv
  <2> HIDE DEF top
  <2>2. ASSUME Alone(s), op[s].cmd = "DELE", WalkAt(s, at[s], entry[s], stack[s]),
               ClearAt(s, at[s], entry[s], stack[s])
        PROVE  ClearAt(s, "rmdir", top.path, stack[s])
    <3>1. Names(Real(s, stack[s][m].path)) = {}
      BY <1>1, <1>3, <1>5, <2>2 DEF ClearAt
    <3> QED BY <2>2, <3>1 DEF ClearAt
  <2> QED BY <1>1, <1>5, <2>1, <2>2, GotoClears
<1>6. \/ \E n \in top.old \cup (Names(Resolve(s, top.path)) \ top.seen) :
            /\ stack' = [stack EXCEPT ![s] = ReadStack(s, n)]
            /\ Goto(s, "lstat", Append(top.path, n))
      \/ top.old = {} /\ stack' = stack /\ Goto(s, "rmdir", top.path)
  BY DEF ReadDir, ReadStack, ReadFrame
<1> QED BY <1>4, <1>5, <1>6

(* The entry of the directory on top that is looked at.                    *)
LEMMA TopEntry ==
  ASSUME CompleteInv, NEW s \in Sessions, at[s] \in {"lstat", "remove"},
         Alone(s), WalkAt(s, at[s], entry[s], stack[s]),
         ClearAt(s, at[s], entry[s], stack[s])
  PROVE  \E n \in Name :
            LET top == stack[s][Len(stack[s])] IN
            /\ Names(Real(s, top.path)) \subseteq top.old \cup {n}
            /\ entry[s] = Append(top.path, n)
            /\ Real(s, top.path) \in Path
            /\ Real(s, entry[s]) = Append(Real(s, top.path), n)
<1> DEFINE m == Len(stack[s])
           top == stack[s][m]
<1>1. stack[s] \in Seq(Frame) /\ m \in Nat /\ m >= 1
  BY Walking DEF CompleteInv
<1>2. m \in 1..m /\ top \in Frame
  BY <1>1
<1>3. top.path \in Path /\ Under(op[s].path, top.path)
  BY <1>1, <1>2 DEF WalkAt, Inside, Frame
<1>4. PICK n \in Name : /\ entry[s] = Append(top.path, n)
                        /\ Names(Real(s, top.path)) \subseteq top.old \cup {n}
  BY DEF ClearAt, Child
<1> HIDE DEF top
<1>5. /\ Real(s, top.path) \in Path
      /\ Real(s, Append(top.path, n)) = Append(Real(s, top.path), n)
  BY <1>3, RealAppend DEF CompleteInv
<1> QED BY <1>4, <1>5 DEF top

LEMMA LstatClears ==
  ASSUME CompleteInv, NEW s \in Sessions, Lstat(s)
  PROVE  Clears(s)'
<1> DEFINE m == Len(stack[s])
           top == stack[s][m]
<1>1. at[s] = "lstat" /\ NoChange(s) /\ UNCHANGED stack
  BY DEF Lstat
<1>2. stack' = [stack EXCEPT ![s] = stack[s]]
  BY <1>1, SameStack DEF CompleteInv, DeleteInv
<1>3. ASSUME NEW a \in {"readdir", "opendir", "remove"},
             Goto(s, a, entry[s]),
             a = "readdir" => lstat(s, entry[s]) = "none",
             a = "opendir" => lstat(s, entry[s]) = "dir",
             a = "remove" => lstat(s, entry[s]) \notin {"none", "dir"}
      PROVE  Clears(s)'
  <2>1. ASSUME Alone(s), op[s].cmd = "DELE", WalkAt(s, at[s], entry[s], stack[s]),
               ClearAt(s, at[s], entry[s], stack[s])
        PROVE  ClearAt(s, a, entry[s], stack[s])
    <3>1. lstat(s, entry[s]) = Kind(Real(s, entry[s]))
      <4>1. entry[s] \in Path
        BY Session1 DEF CompleteInv, DeleteInv
      <4> QED BY <1>1, <2>1, <4>1, RealNear DEF WalkAt, lstat, CompleteInv
    <3>2. Kind(Real(s, entry[s])) \in Kinds
      BY DEF Kind, Kinds, CompleteInv, DeleteInv, FilesInv, Types
    <3>3. PICK n \in Name :
            /\ Names(Real(s, top.path)) \subseteq top.old \cup {n}
            /\ Real(s, entry[s]) = Append(Real(s, top.path), n)
      BY <1>1, <2>1, TopEntry
    <3>4. a = "readdir" => Names(Real(s, top.path)) \subseteq top.old
      BY <1>3, <3>1, <3>3 DEF Names
    <3>5. Child(s, top, entry[s])
      BY <1>1, <2>1 DEF ClearAt
    <3>6. /\ a = "opendir" => Kind(Real(s, entry[s])) = "dir"
          /\ a = "remove" => Kind(Real(s, entry[s])) \in {"file", "link"}
      BY <1>3, <3>1, <3>2 DEF Kinds
    <3> QED BY <2>1, <3>4, <3>5, <3>6 DEF ClearAt
  <2> QED BY <1>1, <1>2, <1>3, <2>1, GotoClears
<1>4. \/ lstat(s, entry[s]) = "none" /\ Goto(s, "readdir", entry[s])
      \/ lstat(s, entry[s]) = "dir" /\ Goto(s, "opendir", entry[s])
      \/ lstat(s, entry[s]) \notin {"none", "dir"} /\ Goto(s, "remove", entry[s])
  BY DEF Lstat
<1> QED BY <1>3, <1>4

(* What the walk comes to it may remove.                                   *)
LEMMA MayRemove ==
  ASSUME DeleteInv, NEW s \in Sessions, at[s] # "idle", Alone(s),
         WalkAt(s, at[s], entry[s], stack[s]),
         NEW e \in Path, Near(s, e), Kind(Real(s, e)) # "none"
  PROVE  /\ LResolve(s, e) = Real(s, e)
         /\ Real(s, e) \in Paths
         /\ lstat(s, e) = Kind(Real(s, e))
         /\ Writable(s, LResolve(s, e))
<1>1. LResolve(s, e) = Real(s, e)
  BY RealNear DEF WalkAt
<1>2. Real(s, e) \in Paths /\ kind[Real(s, e)] # "none"
  BY DEF Kind
<1>3. Under(goal[s], Real(s, e))
  <2>1. goal[s] \in Path /\ op[s].path \in Path
    BY Named1
  <2>2. SubSeq(e, Len(op[s].path) + 1, Len(e)) \in Path
    <3>1. Len(op[s].path) + 1 \in 1..(Len(op[s].path) + 1) /\ Len(op[s].path) \in Nat
      BY <2>1 DEF Path
    <3> QED BY <3>1, RestType DEF Path
  <2> QED BY <2>1, <2>2, ConcatUnder DEF Real, Path
<1>4. Writable(s, Real(s, e))
  BY <1>2, <1>3, MayChange
<1> QED BY <1>1, <1>2, <1>4 DEF lstat

LEMMA RemovedKinds ==
  ASSUME DeleteInv, NEW q, Removed(q)
  PROVE  /\ Kind(q)' = "none"
         /\ \A p : p # q => Kind(p)' = Kind(p)
         /\ \A p : Names(p)' \subseteq Names(p)
<1>1. q \in Paths /\ kind' = [kind EXCEPT ![q] = "none"] /\ kind \in [Paths -> Kinds]
  BY DEF Removed, DeleteInv, FilesInv, Types
<1>2. Kind(q)' = "none" /\ \A p : p # q => Kind(p)' = Kind(p)
  BY <1>1 DEF Kind
<1>3. \A p : Kind(p) = "none" => Kind(p)' = "none"
  BY <1>2
<1> QED BY <1>2, <1>3 DEF Names

(* An entry is removed, and the walk goes on in its directory.             *)
LEMMA RemovedClears ==
  ASSUME DeleteInv, NEW s \in Sessions, op'[s] = op[s], goal'[s] = goal[s],
         NEW k, at'[s] = "readdir", stack'[s] = k,
         \A i \in 1..Len(k) : Kind(Real(s, k[i].path)) = "dir",
         \A i \in 1..(Len(k) - 1) : Child(s, k[i], k[i + 1].path),
         NEW q, Removed(q), \A i \in 1..Len(k) : Real(s, k[i].path) # q,
         NEW n, q = Append(Real(s, k[Len(k)].path), n),
         Names(Real(s, k[Len(k)].path)) \subseteq k[Len(k)].old \cup {n}
  PROVE  Clears(s)'
<1>1. /\ Kind(q)' = "none"
      /\ \A p : p # q => Kind(p)' = Kind(p)
      /\ \A p : Kind(p)' # "none" => Kind(p) # "none"
  BY RemovedKinds
<1>2. \A p : Real(s, p)' = Real(s, p)
  BY DEF Real
<1>3. ASSUME NEW p, NEW x \in Names(Real(s, p))'
      PROVE  x \in Names(Real(s, p)) /\ Append(Real(s, p), x) # q
  <2>1. PICK r : r = Real(s, p)
    OBVIOUS
  <2>2. Real(s, p)' = r
    BY <1>2, <2>1
  <2>3. x \in Name /\ Kind(Append(r, x))' # "none"
    BY <2>2 DEF Names
  <2>4. Kind(Append(r, x)) # "none" /\ Append(r, x) # q
    BY <1>1, <2>3
  <2> QED BY <2>1, <2>3, <2>4 DEF Names
<1>4. \A f, p : Child(s, f, p) => Child(s, f, p)'
  BY <1>3 DEF Child
<1>5. ASSUME NEW i \in 1..Len(k)
      PROVE  Kind(Real(s, k[i].path))' = "dir"
  <2>1. PICK r : r = Real(s, k[i].path)
    OBVIOUS
  <2>2. Real(s, k[i].path)' = r /\ Kind(r)' = "dir"
    BY <1>1, <1>2, <2>1
  <2> QED BY <2>2 DEF Kind
<1>6. Names(Real(s, k[Len(k)].path))' \subseteq k[Len(k)].old
  BY <1>3
<1>7. (\A i \in 1..Len(stack[s]) : Kind(Real(s, stack[s][i].path)) = "dir")'
  BY <1>5
<1>8. (\A i \in 1..(Len(stack[s]) - 1) : Child(s, stack[s][i], stack[s][i + 1].path))'
  BY <1>4
<1>9. (Names(Real(s, stack[s][Len(stack[s])].path)) \subseteq stack[s][Len(stack[s])].old)'
  BY <1>6
<1>10. ClearAt(s, at[s], entry[s], stack[s])'
  BY <1>7, <1>8, <1>9 DEF ClearAt
<1> QED BY <1>10 DEF Clears

LEMMA UnlinkEntryClears ==
  ASSUME CompleteInv, NEW s \in Sessions, Effect(s), UnlinkEntry(s)
  PROVE  Clears(s)'
<1> DEFINE m == Len(stack[s])
           top == stack[s][m]
           q == Real(s, entry[s])
<1>1. /\ at[s] = "remove" /\ Goto(s, "readdir", <<>>) /\ UNCHANGED stack
      /\ NoChange(s) \/ \E x, y : Change(s, x, y)
  BY DEF UnlinkEntry
<1>2. at'[s] = "readdir" /\ op'[s] = op[s] /\ goal'[s] = goal[s]
  BY <1>1 DEF Goto, CompleteInv, DeleteInv, FilesInv, Types
<1>3. CASE ~Alone(s)'
  BY <1>3 DEF Clears
<1>4. CASE Alone(s)'
  <2>1. /\ Alone(s) /\ op[s].cmd = "DELE" /\ WalkAt(s, at[s], entry[s], stack[s])
        /\ ClearAt(s, at[s], entry[s], stack[s])
    BY <1>1, <1>2, <1>4, StillAlone
  <2>2. Kind(q) \in {"file", "link"}
    BY <1>1, <2>1 DEF ClearAt
  <2>3. /\ LResolve(s, entry[s]) = q /\ lstat(s, entry[s]) = Kind(q)
        /\ Writable(s, LResolve(s, entry[s]))
    <3>1. entry[s] \in Path /\ Near(s, entry[s])
      BY <1>1, <2>1, Session1 DEF CompleteInv, DeleteInv, WalkAt
    <3> QED BY <1>1, <2>1, <2>2, <3>1, MayRemove DEF CompleteInv
  <2>4. CanUnlink(s, entry[s]) /\ Change(s, LResolve(s, entry[s]), "none")
    BY <2>2, <2>3 DEF CanUnlink, UnlinkEntry
  <2>5. Removed(q)
    BY <2>3, <2>4, UnlinkEffect DEF CompleteInv, DeleteInv
  <2>6. PICK n \in Name : /\ Names(Real(s, top.path)) \subseteq top.old \cup {n}
                          /\ q = Append(Real(s, top.path), n)
    BY <1>1, <2>1, TopEntry
  <2>7. /\ \A i \in 1..m : Kind(Real(s, stack[s][i].path)) = "dir"
        /\ \A i \in 1..(m - 1) : Child(s, stack[s][i], stack[s][i + 1].path)
    BY <2>1 DEF ClearAt
  <2>8. \A i \in 1..m : Real(s, stack[s][i].path) # q
    BY <2>2, <2>7
  <2>9. stack'[s] = stack[s]
    BY <1>1
  <2> HIDE DEF q
  <2> QED BY <1>2, <2>5, <2>6, <2>7, <2>8, <2>9, RemovedClears DEF CompleteInv
<1> QED BY <1>3, <1>4

(* The frame above the top one has the directory on top as an entry.       *)
LEMMA FrameEntry ==
  ASSUME CompleteInv, NEW s \in Sessions, at[s] # "idle",
         WalkAt(s, at[s], entry[s], stack[s]), ClearAt(s, at[s], entry[s], stack[s]),
         NEW i \in 1..(Len(stack[s]) - 1)
  PROVE  \E n \in Name :
            LET f == stack[s][i] IN
            /\ Names(Real(s, f.path)) \subseteq f.old \cup {n}
            /\ Real(s, stack[s][i + 1].path) = Append(Real(s, f.path), n)
            /\ n \in Names(Real(s, f.path))
<1> DEFINE f == stack[s][i]
<1>1. stack[s] \in Seq(Frame)
  BY Session1 DEF CompleteInv, DeleteInv
<1>2. i \in 1..Len(stack[s]) /\ i + 1 \in 1..Len(stack[s]) /\ f \in Frame
  BY <1>1
<1>3. f.path \in Path /\ Under(op[s].path, f.path)
  BY <1>2 DEF WalkAt, Inside, Frame
<1>4. Kind(Real(s, stack[s][i + 1].path)) = "dir"
  BY <1>2 DEF ClearAt
<1>5. PICK n \in Name : /\ stack[s][i + 1].path = Append(f.path, n)
                        /\ Names(Real(s, f.path)) \subseteq f.old \cup {n}
  BY DEF ClearAt, Child
<1> HIDE DEF f
<1>6. Real(s, Append(f.path, n)) = Append(Real(s, f.path), n)
  BY <1>3, RealAppend DEF CompleteInv
<1>7. n \in Names(Real(s, f.path))
  BY <1>4, <1>5, <1>6 DEF Names
<1> QED BY <1>5, <1>6, <1>7 DEF f

(* The directory on top is empty, so that it can be removed.               *)
LEMMA TopRemoved ==
  ASSUME CompleteInv, NEW s \in Sessions, at[s] = "rmdir", op[s].cmd = "DELE",
         Alone(s), WalkAt(s, at[s], entry[s], stack[s]),
         ClearAt(s, at[s], entry[s], stack[s])
  PROVE  /\ CanRmdir(s, entry[s]) /\ LResolve(s, entry[s]) = Real(s, entry[s])
         /\ Names(Real(s, entry[s])) = {}
         /\ entry[s] = stack[s][Len(stack[s])].path
<1> DEFINE m == Len(stack[s])
           q == Real(s, entry[s])
<1>1. m \in Nat /\ m >= 1
  BY Walking DEF CompleteInv
<1>2. entry[s] = stack[s][m].path /\ m \in 1..m
  BY <1>1 DEF WalkAt
<1>3. Kind(q) = "dir" /\ Names(q) = {}
  BY <1>2 DEF ClearAt
<1>4. entry[s] \in Path /\ Near(s, entry[s])
  BY Session1 DEF CompleteInv, DeleteInv, WalkAt
<1>5. /\ LResolve(s, entry[s]) = q /\ lstat(s, entry[s]) = Kind(q)
      /\ Writable(s, LResolve(s, entry[s]))
  BY <1>3, <1>4, MayRemove DEF CompleteInv
<1> QED BY <1>2, <1>3, <1>5 DEF CanRmdir

LEMMA RmdirClears ==
  ASSUME CompleteInv, NEW s \in Sessions, Effect(s), Rmdir(s)
  PROVE  Clears(s)'
<1> DEFINE m == Len(stack[s])
           k == Front(stack[s])
           q == Real(s, entry[s])
<1>1. at[s] = "rmdir" /\ op[s].cmd = "DELE"
  BY DEF Rmdir
<1>2. CASE \E code : Answer(s, code)
  BY <1>2, AnswerClears
<1>3. CASE ~Alone(s)'
  BY <1>3 DEF Clears
<1>4. ASSUME Alone(s)', stack' = [stack EXCEPT ![s] = Front(@)], Goto(s, "readdir", <<>>),
             m # 1, Change(s, LResolve(s, entry[s]), "none")
      PROVE  Clears(s)'
  <2>1. /\ at'[s] = "readdir" /\ op'[s] = op[s] /\ goal'[s] = goal[s] /\ stack'[s] = k
    BY <1>4 DEF Goto, CompleteInv, DeleteInv, FilesInv, Types
  <2>2. /\ Alone(s) /\ WalkAt(s, at[s], entry[s], stack[s])
        /\ ClearAt(s, at[s], entry[s], stack[s])
    BY <1>1, <1>4, <2>1, StillAlone
  <2>3. CanRmdir(s, entry[s]) /\ LResolve(s, entry[s]) = q /\ Names(q) = {}
        /\ entry[s] = stack[s][m].path
    BY <1>1, <2>2, TopRemoved
  <2>4. Removed(q)
    BY <1>4, <2>3, UnlinkEffect DEF CompleteInv, DeleteInv
  <2>5. /\ k # <<>> /\ Len(k) = m - 1 /\ m \in Nat /\ m >= 2
        /\ \A i \in 1..(m - 1) : k[i] = stack[s][i]
    <3>1. stack[s] \in Seq(Frame) /\ stack[s] # <<>>
      BY <1>1, Walking DEF CompleteInv
    <3> QED BY <1>4, <3>1, PopFrames DEF CompleteInv
  <2>6. m - 1 \in 1..(m - 1) /\ k[m - 1] = stack[s][m - 1] /\ (m - 1) + 1 = m
    BY <2>5
  <2>7. PICK n \in Name :
            /\ Names(Real(s, k[m - 1].path)) \subseteq k[m - 1].old \cup {n}
            /\ q = Append(Real(s, k[m - 1].path), n)
    BY <1>1, <2>2, <2>3, <2>6, FrameEntry
  <2> HIDE DEF q, k
  <2>8. \A i \in 1..Len(k) : Real(s, k[i].path) # q
    <3> SUFFICES ASSUME NEW i \in 1..(m - 1) PROVE Real(s, stack[s][i].path) # q
      BY <2>5
    <3>1. Names(Real(s, stack[s][i].path)) # {}
      BY <1>1, <2>2, FrameEntry
    <3> QED BY <2>3, <3>1
  <2>9. ASSUME NEW i \in 1..Len(k)
        PROVE  Kind(Real(s, k[i].path)) = "dir"
    <3>1. i \in 1..m /\ k[i] = stack[s][i]
      BY <2>5
    <3> QED BY <2>2, <3>1 DEF ClearAt
  <2>10. ASSUME NEW i \in 1..(Len(k) - 1)
         PROVE  Child(s, k[i], k[i + 1].path)
    <3>1. i \in 1..(m - 1) /\ i + 1 \in 1..(m - 1)
      BY <2>5
    <3> QED BY <2>2, <2>5, <3>1 DEF ClearAt
  <2>11. /\ Names(Real(s, k[Len(k)].path)) \subseteq k[Len(k)].old \cup {n}
         /\ q = Append(Real(s, k[Len(k)].path), n)
    BY <2>5, <2>7
  <2> QED BY <2>1, <2>4, <2>8, <2>9, <2>10, <2>11, RemovedClears DEF CompleteInv
<1>5. \/ \E code : Answer(s, code)
      \/ /\ stack' = [stack EXCEPT ![s] = Front(@)] /\ Goto(s, "readdir", <<>>)
         /\ m # 1 /\ Change(s, LResolve(s, entry[s]), "none")
  BY Zenon DEF Rmdir, Return, Deleted
<1> QED BY <1>2, <1>3, <1>4, <1>5

LEMMA BeginClears ==
  ASSUME CompleteInv, NEW s \in Sessions, NEW cmd, NEW f, NEW r, Begin(s, cmd, f, r)
  PROVE  Clears(s)'
<1>1. CASE Answer(s, Unsafe(cmd))
  BY <1>1, AnswerClears
<1>2. CASE at' = [at EXCEPT ![s] = "stat"] /\ stack' = stack
  <2>1. at[s] = "idle"
    BY DEF Begin, Ready
  <2>2. stack[s] = <<>>
    BY <2>1, Session1 DEF CompleteInv, DeleteInv, Held
  <2>3. at'[s] = "stat" /\ stack'[s] = <<>> /\ Len(stack'[s]) = 0
    BY <1>2, <2>2 DEF CompleteInv, DeleteInv, FilesInv, Types
  <2> QED BY <2>3 DEF Clears, ClearAt
<1> QED BY <1>1, <1>2 DEF Begin

LEMMA ActClears ==
  ASSUME CompleteInv, NEW s \in Sessions, Act(s)
  PROVE  Clears(s)'
<1>1. Effect(s)
  BY ActEffect DEF CompleteInv, DeleteInv
<1>2. CASE LoginStep(s) \/ StorOpen(s)
  <2>1. at'[s] = "idle"
    BY <1>2 DEF LoginStep, StorOpen, Ready
  <2> QED BY <2>1 DEF Clears
<1>3. CASE \/ handle_dele_command(s)
           \/ cftp_mkd_authenticated_action(s)
           \/ cftp_rmd_authenticated_action(s)
           \/ cftp_cwd_authenticated_action(s)
  BY <1>3, BeginClears DEF handle_dele_command, cftp_mkd_authenticated_action,
     cftp_rmd_authenticated_action, cftp_cwd_authenticated_action
<1>4. CASE \/ cftp_size_authenticated_action(s)
           \/ handle_mdtm_command(s)
           \/ cftp_pwd_authenticated_action(s)
  BY <1>4, AnswerClears DEF cftp_size_authenticated_action, handle_mdtm_command,
     cftp_pwd_authenticated_action
<1>5. CASE Unlink(s) \/ Mkdir(s) \/ Rmd(s) \/ Chdir(s)
  <2>1. \E code : Answer(s, code)
    BY <1>5 DEF Unlink, Mkdir, Rmd, Chdir, Deleted
  <2> QED BY <2>1, AnswerClears
<1>6. CASE \/ Stat(s) \/ OpenDir(s) \/ ReadDir(s) \/ Lstat(s)
           \/ UnlinkEntry(s) \/ Rmdir(s)
  BY <1>1, <1>6, StatClears, OpenDirClears, ReadDirClears, LstatClears,
     UnlinkEntryClears, RmdirClears
<1> QED BY <1>2, <1>3, <1>4, <1>5, <1>6 DEF Act, Call

LEMMA OtherClears ==
  ASSUME CompleteInv, NEW s \in Sessions, Act(s), NEW t \in Sessions \ {s}
  PROVE  Clears(t)'
<1>1. Kept(t)
  BY ActKept DEF CompleteInv, DeleteInv
<1>2. CASE at[t] = "idle" \/ ~Alone(t)'
  BY <1>1, <1>2 DEF Clears, Kept
<1>3. CASE at[t] # "idle" /\ Alone(t)'
  <2>1. Alone(t) /\ kind' = kind
    BY <1>3, AloneOther DEF CompleteInv
  <2>2. ClearAt(t, at[t], entry[t], stack[t])
    BY <1>3, <2>1 DEF CompleteInv, Clears
  <2> QED BY <1>1, <2>1, <2>2, ClearGoes DEF Kept
<1> QED BY <1>2, <1>3

LEMMA CompleteStutter ==
  ASSUME CompleteInv, UNCHANGED vars
  PROVE  CompleteInv'
<1>1. DeleteInv'
  BY DeleteStutter DEF CompleteInv
<1>2. /\ kind' = kind /\ conn' = conn /\ at' = at /\ entry' = entry /\ stack' = stack
      /\ op' = op /\ goal' = goal /\ disturbed' = disturbed
  BY DEF vars
<1>3. ASSUME NEW t \in Sessions
      PROVE  Clears(t)'
  <2>1. CASE at[t] # "idle" /\ Alone(t)'
    <3>1. LResolve(t, op[t].path)' = LResolve(t, op[t].path)
      BY <1>2, LResolveKept
    <3>2. Alone(t)
      BY <1>2, <2>1, <3>1 DEF Alone
    <3>3. ClearAt(t, at[t], entry[t], stack[t])
      BY <2>1, <3>2 DEF CompleteInv, Clears
    <3> QED BY <1>2, <3>3, ClearGoes
  <2>2. CASE at[t] = "idle" \/ ~Alone(t)'
    BY <1>2, <2>2 DEF Clears
  <2> QED BY <2>1, <2>2
<1> QED BY <1>1, <1>3 DEF CompleteInv

(* What a walk that nobody disturbs has left behind, of every session.     *)
THEOREM DeleteClears == Spec => []CompleteInv
<1>1. Init => CompleteInv
  BY DeleteInit DEF Init, CompleteInv, Clears
<1>2. CompleteInv /\ [Next]_vars => CompleteInv'
  <2>1. ASSUME CompleteInv, Next
        PROVE  CompleteInv'
    <3>1. PICK s \in Sessions : Act(s)
      BY <2>1 DEF Next, Act
    <3>2. DeleteInv'
      BY <2>1, DeleteNext DEF CompleteInv
    <3>3. \A t \in Sessions : Clears(t)'
      BY <2>1, <3>1, ActClears, OtherClears
    <3> QED BY <3>2, <3>3 DEF CompleteInv
  <2> QED BY <2>1, CompleteStutter
<1> QED BY <1>1, <1>2, PTL DEF Spec

(* The last step of DELE -r, and what it leaves.                           *)
LEMMA LeavesNothing ==
  ASSUME CompleteInv, NEW s \in Sessions, Act(s), Ends(s), Alone(s),
         NEW q \in Paths, Under(goal[s], q)
  PROVE  kind'[q] = "none"
<1>1. at[s] # "idle" /\ at'[s] = "idle" /\ op[s].cmd = "DELE" /\ op[s].recursive
  BY DEF Ends, Alone
<1>2. /\ WalkAt(s, at[s], entry[s], stack[s]) /\ OwnCall(s)
      /\ ClearAt(s, at[s], entry[s], stack[s])
  BY <1>1 DEF CompleteInv, DeleteInv, WalkInv, Walk, Clears
<1>3. entry[s] \in Path /\ op[s].path \in Path /\ goal[s] \in Path /\ goal[s] # <<>>
  BY <1>1, <1>2, Session1, Named1, GoalIn DEF CompleteInv, DeleteInv
<1>4. ASSUME NEW a, NEW e, a # "idle"
      PROVE  ~Goto(s, a, e)
  BY <1>1, <1>4 DEF Goto, CompleteInv, DeleteInv, FilesInv, Types
<1>5. CASE Stat(s)
  <2>1. at[s] = "stat" /\ kind' = kind /\ DeleStat(s)
    BY <1>1, <1>5 DEF Stat, NoChange, MkdStat, RmdStat, CwdStat
  <2>2. stat(s, entry[s]) = "none"
    BY <1>1, <1>4, <2>1 DEF DeleStat
  <2>3. entry[s] = op[s].path
    BY <1>2, <2>1 DEF WalkAt
  <2>4. Kind(goal[s]) = "none"
    BY <1>2, <2>2, <2>3, GoalIs DEF WalkAt, stat, CompleteInv
  <2>5. q # goal[s] => kind[q] = "none"
    BY <1>3, <2>4, NothingBelow DEF CompleteInv, DeleteInv
  <2> QED BY <2>1, <2>4, <2>5 DEF Kind
<1>6. CASE Unlink(s)
  <2>1. at[s] = "unlink" /\ entry[s] = op[s].path /\ Kind(goal[s]) = "file"
    BY <1>2, <1>6 DEF Unlink, WalkAt, ClearAt
  <2>2. Real(s, entry[s]) = goal[s] /\ Near(s, entry[s])
    BY <1>2, <2>1, RealSelf DEF WalkAt, CompleteInv
  <2>3. /\ LResolve(s, entry[s]) = goal[s] /\ lstat(s, entry[s]) = "file"
        /\ Writable(s, LResolve(s, entry[s]))
    BY <1>1, <1>2, <1>3, <2>1, <2>2, MayRemove DEF CompleteInv
  <2>4. Removing(s)
    BY <1>6, <2>3 DEF Unlink, CanUnlink, Removing
  <2> QED BY <2>3, <2>4, AllGone DEF CompleteInv
<1>7. CASE Rmdir(s)
  <2>1. at[s] = "rmdir"
    BY <1>7 DEF Rmdir
  <2>2. CanRmdir(s, entry[s]) /\ entry[s] = stack[s][Len(stack[s])].path
    BY <1>1, <1>2, <2>1, TopRemoved
  <2>3. Return(s) /\ Removing(s)
    BY <1>7, <2>2, Zenon DEF Rmdir, Removing
  <2>4. Len(stack[s]) = 1
    BY <1>4, <2>3 DEF Return
  <2>5. entry[s] = op[s].path
    BY <1>1, <1>2, <2>1, <2>2, <2>4, Walking DEF WalkAt, CompleteInv
  <2>6. LResolve(s, entry[s]) = goal[s]
    BY <2>5 DEF Alone
  <2> QED BY <2>3, <2>6, AllGone DEF CompleteInv
<1>8. ~OpenDir(s)
  <2> SUFFICES ASSUME OpenDir(s) PROVE FALSE
    OBVIOUS
  <2>1. at[s] = "opendir"
    BY DEF OpenDir
  <2>2. stat(s, entry[s]) = "dir"
    <3>1. Kind(Real(s, entry[s])) = "dir" /\ Inside(s, entry[s])
      BY <1>2, <2>1 DEF ClearAt, WalkAt
    <3>2. Resolve(s, entry[s]) = Real(s, entry[s])
      BY <1>2, <1>3, <3>1, RealInside DEF WalkAt, CompleteInv
    <3> QED BY <3>1, <3>2 DEF stat
  <2> QED BY <1>4, <2>2 DEF OpenDir
<1>9. ~ReadDir(s) /\ ~Lstat(s) /\ ~UnlinkEntry(s) /\ ~Mkdir(s) /\ ~Rmd(s) /\ ~Chdir(s)
  <2>1. ~ReadDir(s)
    BY <1>4 DEF ReadDir
  <2>2. ~Lstat(s)
    BY <1>4 DEF Lstat
  <2>3. ~UnlinkEntry(s)
    BY <1>4 DEF UnlinkEntry
  <2>4. ~Mkdir(s) /\ ~Rmd(s) /\ ~Chdir(s)
    BY <1>1, <1>2 DEF OwnCall, Mkdir, Rmd, Chdir
  <2> QED BY <2>1, <2>2, <2>3, <2>4
<1>10. Call(s)
  <2>1. ~Ready(s) /\ ~LoginStep(s)
    BY <1>1 DEF Ready, LoginStep
  <2>2. /\ ~handle_dele_command(s) /\ ~cftp_mkd_authenticated_action(s)
        /\ ~cftp_rmd_authenticated_action(s) /\ ~cftp_cwd_authenticated_action(s)
    BY <2>1, Zenon DEF handle_dele_command, cftp_mkd_authenticated_action,
       cftp_rmd_authenticated_action, cftp_cwd_authenticated_action, Begin
  <2>3. /\ ~cftp_size_authenticated_action(s) /\ ~handle_mdtm_command(s)
        /\ ~cftp_pwd_authenticated_action(s) /\ ~StorOpen(s)
    BY <2>1 DEF cftp_size_authenticated_action, handle_mdtm_command,
       cftp_pwd_authenticated_action, StorOpen
  <2> QED BY <2>1, <2>2, <2>3 DEF Act
<1> QED BY <1>5, <1>6, <1>7, <1>8, <1>9, <1>10 DEF Call

(* DELE -r leaves nothing at or under what was named, if its user may      *)
(* change all of it and no other session changed anything meanwhile:       *)
(* every entry is found, entered or removed, and every directory is empty  *)
(* when its turn comes.                                                    *)
THEOREM DeletesAll == Spec => DeleteComplete
<1> DEFINE All ==
      \A s \in Sessions :
          /\ Ends(s)
          /\ op[s].cmd = "DELE" /\ op[s].recursive
          /\ ~disturbed[s]
          /\ goal[s] = LResolve(s, op[s].path) /\ goal[s] # conn[s].root
          /\ \A d \in ReadOnly : d # Front(goal[s]) /\ ~Under(goal[s], d)
          => \A q \in Paths : Under(goal[s], q) => kind'[q] = "none"
<1>1. CompleteInv /\ [Next]_vars => [All]_vars
  <2> SUFFICES ASSUME CompleteInv, Next, NEW s \in Sessions, Ends(s), Alone(s),
                      NEW q \in Paths, Under(goal[s], q)
               PROVE  kind'[q] = "none"
    BY DEF vars, Alone
  <2>1. PICK u \in Sessions : Act(u)
    BY DEF Next, Act
  <2>2. u = s
    <3> SUFFICES ASSUME u # s PROVE FALSE
      OBVIOUS
    <3>1. Kept(s)
      BY <2>1, ActKept DEF CompleteInv, DeleteInv
    <3> QED BY <3>1 DEF Kept, Ends
  <2> QED BY <2>1, <2>2, LeavesNothing
<1> QED BY <1>1, DeleteClears, PTL DEF Spec, DeleteComplete

=============================================================================
