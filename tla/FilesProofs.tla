------------------------------ MODULE FilesProofs ------------------------------
(***************************************************************************)
(* Theorems about Login and Files, for any file tree, users, arguments and *)
(* number of sessions: a login is complete, a session stays in the home of *)
(* its user, and changes nothing outside of it.  The invariant FilesInv    *)
(* adds what a command holds between its system calls: its path, its entry *)
(* and its open directories are in the home, or start at a directory that  *)
(* is gone and lead nowhere.                                               *)
(***************************************************************************)
EXTENDS Files, SequenceTheorems, TLAPS

(* What is known of a prefix.                                              *)
LEMMA UnderDef ==
  ASSUME NEW S, NEW r \in Seq(S), NEW p \in Seq(S)
  PROVE  Under(r, p) <=> /\ Len(r) <= Len(p)
                         /\ \A i \in 1..Len(r) : r[i] = p[i]
<1>1. CASE Len(r) <= Len(p)
  <2>1. SubSeq(r, 1, Len(r)) \in Seq(S) /\ SubSeq(p, 1, Len(r)) \in Seq(S)
    BY <1>1
  <2>2. Len(SubSeq(r, 1, Len(r))) = Len(r) /\ Len(SubSeq(p, 1, Len(r))) = Len(r)
    BY <1>1
  <2>3. \A i \in 1..Len(r) : /\ SubSeq(r, 1, Len(r))[i] = r[i]
                             /\ SubSeq(p, 1, Len(r))[i] = p[i]
    BY <1>1
  <2>4. SubSeq(r, 1, Len(r)) = SubSeq(p, 1, Len(r))
           <=> \A i \in 1..Len(r) : r[i] = p[i]
    BY <2>1, <2>2, <2>3
  <2> QED BY <1>1, <2>4 DEF Under, IsPrefix
<1>2. CASE ~(Len(r) <= Len(p))
  BY <1>2 DEF Under, IsPrefix
<1> QED BY <1>1, <1>2

LEMMA UnderSelf ==
  ASSUME NEW S, NEW r \in Seq(S)
  PROVE  Under(r, r)
BY UnderDef

LEMMA UnderConcat ==
  ASSUME NEW S, NEW r \in Seq(S), NEW p \in Seq(S), NEW x \in Seq(S), Under(r, p)
  PROVE  p \o x \in Seq(S) /\ Under(r, p \o x)
<1>1. p \o x \in Seq(S) /\ Len(p \o x) = Len(p) + Len(x)
  OBVIOUS
<1>2. \A i \in 1..Len(p) : (p \o x)[i] = p[i]
  OBVIOUS
<1>3. Len(r) <= Len(p) /\ \A i \in 1..Len(r) : r[i] = p[i]
  BY UnderDef
<1>4. \A i \in 1..Len(r) : i \in 1..Len(p)
  BY <1>3
<1>5. \A i \in 1..Len(r) : r[i] = (p \o x)[i]
  BY <1>2, <1>3, <1>4
<1>6. Len(r) <= Len(p \o x)
  BY <1>1, <1>3
<1> QED BY <1>1, <1>5, <1>6, UnderDef

LEMMA UnderAppend ==
  ASSUME NEW S, NEW r \in Seq(S), NEW p \in Seq(S), NEW n \in S, Under(r, p)
  PROVE  Append(p, n) \in Seq(S) /\ Under(r, Append(p, n))
<1>1. Append(p, n) \in Seq(S) /\ Len(Append(p, n)) = Len(p) + 1
  OBVIOUS
<1>2. \A i \in 1..Len(p) : Append(p, n)[i] = p[i]
  OBVIOUS
<1>3. Len(r) <= Len(p) /\ \A i \in 1..Len(r) : r[i] = p[i]
  BY UnderDef
<1>4. \A i \in 1..Len(r) : i \in 1..Len(p)
  BY <1>3
<1>5. \A i \in 1..Len(r) : r[i] = Append(p, n)[i]
  BY <1>2, <1>3, <1>4
<1>6. Len(r) <= Len(Append(p, n))
  BY <1>1, <1>3
<1> QED BY <1>1, <1>5, <1>6, UnderDef

LEMMA FrontLast ==
  ASSUME NEW S, NEW p \in Seq(S), p # <<>>
  PROVE  /\ Front(p) \in Seq(S) /\ Len(Front(p)) = Len(p) - 1
         /\ \A i \in 1..(Len(p) - 1) : Front(p)[i] = p[i]
         /\ Last(p) \in S /\ Last(p) = p[Len(p)]
         /\ Append(Front(p), Last(p)) = p
<1>1. Len(p) \in Nat /\ Len(p) >= 1
  OBVIOUS
<1> DEFINE n == Len(p) - 1
<1>a. \A i \in 1..n : p[i] \in S
  BY <1>1
<1>b. n \in Int /\ n >= 0 /\ n - 1 + 1 = n
  BY <1>1
<1> HIDE DEF n
<1>c. /\ SubSeq(p, 1, n) \in Seq(S)
      /\ Len(SubSeq(p, 1, n)) = IF 1 <= n THEN n - 1 + 1 ELSE 0
      /\ \A i \in 1..(n - 1 + 1) : SubSeq(p, 1, n)[i] = p[1 + i - 1]
  BY <1>a, <1>b, SubSeqProperties
<1>2. Front(p) \in Seq(S) /\ Len(Front(p)) = Len(p) - 1
  BY <1>b, <1>c DEF Front, n
<1>3. \A i \in 1..(Len(p) - 1) : Front(p)[i] = p[i]
  BY <1>b, <1>c DEF Front, n
<1>4. Last(p) \in S /\ Last(p) = p[Len(p)]
  BY <1>1 DEF Last
<1>5. Append(Front(p), Last(p)) = p
  BY <1>1, <1>2, <1>3, <1>4
<1> QED BY <1>2, <1>3, <1>4, <1>5

LEMMA UnderFront ==
  ASSUME NEW S, NEW r \in Seq(S), NEW p \in Seq(S), Under(r, p), p # r
  PROVE  p # <<>> /\ Under(r, Front(p))
<1>1. Len(r) <= Len(p) /\ \A i \in 1..Len(r) : r[i] = p[i]
  BY UnderDef
<1>2. Len(r) # Len(p)
  BY <1>1
<1>3. p # <<>> /\ Len(r) <= Len(p) - 1
  BY <1>1, <1>2
<1> QED BY <1>1, <1>3, FrontLast, UnderDef, SMTT(30)

-----------------------------------------------------------------------------
(* Paths in the home and paths that are nowhere                            *)

Lost(p) == Len(p) >= 1 /\ p[1] = None
In(r, p) == Under(r, p) \/ Lost(p)

LinksKept == \A p \in Paths : kind[p] = "link" => p \in DOMAIN LinkTo

LEMMA NamePath == \A p \in Seq(Name) : p \in Path
BY DEF Path

LEMMA LostNowhere ==
  ASSUME NEW p \in Path, Lost(p)
  PROVE  p \notin Paths
<1>1. \A q \in Paths : Len(q) >= 1 => q[1] \in Name
  BY FilesAssumption
<1> QED BY <1>1, FilesAssumption DEF Lost

LEMMA LostPrefix ==
  ASSUME NEW p \in Path, Lost(p), NEW i \in 1..Len(p)
  PROVE  SubSeq(p, 1, i) \in Path /\ Lost(SubSeq(p, 1, i))
<1>1. Len(p) \in Nat
  BY DEF Path
<1>2. \A j \in 1..i : p[j] \in Name \cup {None}
  BY <1>1 DEF Path
<1>3. /\ SubSeq(p, 1, i) \in Path
      /\ Len(SubSeq(p, 1, i)) = IF 1 <= i THEN i - 1 + 1 ELSE 0
      /\ \A j \in 1..(i - 1 + 1) : SubSeq(p, 1, i)[j] = p[1 + j - 1]
  BY <1>1, <1>2, SubSeqProperties DEF Path
<1>4. SubSeq(p, 1, i)[1] = p[1 + 1 - 1]
  BY <1>1, <1>3
<1> QED BY <1>1, <1>3, <1>4 DEF Lost

LEMMA LostResolve ==
  ASSUME NEW s, NEW p \in Path, Lost(p)
  PROVE  Resolve(s, p) = p
<1>1. Links(p) = {}
  BY LostPrefix, LostNowhere DEF Links, Kind
<1> QED BY <1>1 DEF Resolve

(* Following links leads nowhere but to the path itself or into the root   *)
(* directory of the process.                                               *)
LEMMA ResolveType ==
  ASSUME NEW s, NEW p \in Path, LinksKept, conn[s].root \in Seq(Name)
  PROVE  /\ Resolve(s, p) \in Path
         /\ Resolve(s, p) = p \/ Under(conn[s].root, Resolve(s, p))
<1>1. CASE Links(p) = {}
  BY <1>1 DEF Resolve
<1>2. CASE Links(p) # {}
  <2> DEFINE i == CHOOSE i \in Links(p) : TRUE
             l == LinkTo[SubSeq(p, 1, i)]
             x == SubSeq(p, i + 1, Len(p))
             r == conn[s].root
  <2>1. i \in Links(p)
    BY <1>2
  <2> HIDE DEF i
  <2>2. i \in 1..Len(p) /\ SubSeq(p, 1, i) \in Paths /\ kind[SubSeq(p, 1, i)] = "link"
    BY <2>1 DEF Links, Kind
  <2>3. SubSeq(p, 1, i) \in DOMAIN LinkTo
    BY <2>2 DEF LinksKept
  <2>4. l \in Seq(Name)
    BY <2>3, FilesAssumption
  <2>5. l \in Path /\ r \in Path
    BY <2>4, NamePath
  <2>6. x \in Path
    BY <2>2 DEF Path
  <2>7. Resolve(s, p) = r \o l \o x
    BY <1>2 DEF Resolve, i
  <2> HIDE DEF l, x, r
  <2>8. Under(r, r)
    BY <2>5, UnderSelf DEF Path
  <2>9. r \o l \in Path /\ Under(r, r \o l)
    BY <2>5, <2>8, UnderConcat DEF Path
  <2>10. (r \o l) \o x \in Path /\ Under(r, (r \o l) \o x)
    BY <2>5, <2>6, <2>9, UnderConcat DEF Path
  <2> QED BY <2>7, <2>10 DEF r
<1> QED BY <1>1, <1>2

LEMMA ResolveIn ==
  ASSUME NEW s, NEW p \in Path, LinksKept, conn[s].root \in Seq(Name),
         In(conn[s].root, p)
  PROVE  Resolve(s, p) \in Path /\ In(conn[s].root, Resolve(s, p))
BY ResolveType DEF In

LEMMA InPaths ==
  ASSUME NEW r, NEW p \in Path, In(r, p), p \in Paths
  PROVE  Under(r, p)
BY LostNowhere DEF In

LEMMA LostLResolve ==
  ASSUME NEW s, NEW p \in Path, Lost(p)
  PROVE  LResolve(s, p) = p
<1>1. p # <<>>
  BY DEF Lost, Path
<1>2. /\ Front(p) \in Path /\ Len(Front(p)) = Len(p) - 1
      /\ \A i \in 1..(Len(p) - 1) : Front(p)[i] = p[i]
      /\ Append(Front(p), Last(p)) = p
  BY <1>1, FrontLast DEF Path
<1>3. CASE Len(p) = 1
  <2>1. Len(Front(p)) = 0
    BY <1>2, <1>3
  <2>2. Links(Front(p)) = {}
    BY <2>1 DEF Links
  <2>3. Resolve(s, Front(p)) = Front(p)
    BY <2>2 DEF Resolve
  <2> QED BY <1>1, <1>2, <2>3 DEF LResolve
<1>4. CASE Len(p) # 1
  <2>1. Len(p) \in Nat /\ Len(p) >= 1
    BY DEF Lost, Path
  <2>2. Lost(Front(p))
    BY <2>1, <1>2, <1>4 DEF Lost
  <2> QED BY <1>1, <1>2, <2>2, LostResolve DEF LResolve
<1> QED BY <1>3, <1>4

LEMMA HomeLResolve ==
  ASSUME NEW s, NEW u \in Users, LinksKept
  PROVE  LResolve(s, Home[u]) = Home[u]
<1> DEFINE h == Home[u]
<1>1. h \in Seq(Name) /\ h # <<>>
  BY LoginAssumption
<1>2. \A i \in 1..Len(h) : SubSeq(h, 1, i) \notin DOMAIN LinkTo
  BY FilesAssumption
<1> HIDE DEF h
<1>3. /\ Front(h) \in Seq(Name) /\ Len(Front(h)) = Len(h) - 1
      /\ \A i \in 1..(Len(h) - 1) : Front(h)[i] = h[i]
      /\ Append(Front(h), Last(h)) = h
  BY <1>1, FrontLast
<1>4. ASSUME NEW i \in 1..Len(Front(h))
      PROVE  SubSeq(Front(h), 1, i) = SubSeq(h, 1, i)
  <2>1. Len(h) \in Nat /\ Len(Front(h)) \in Nat /\ i \in 1..Len(h)
    BY <1>1, <1>3, <1>4
  <2>2. \A j \in 1..i : h[j] \in Name /\ Front(h)[j] = h[j]
    BY <1>1, <1>3, <2>1
  <2>3. \A j \in 1..i : h[j] \in Name
    BY <2>2
  <2>4. \A j \in 1..i : Front(h)[j] \in Name
    BY <2>2
  <2>5. /\ SubSeq(h, 1, i) \in Seq(Name)
        /\ Len(SubSeq(h, 1, i)) = i
        /\ \A j \in 1..i : SubSeq(h, 1, i)[j] = h[j]
    BY <2>1, <2>3, SubSeqProperties
  <2>6. /\ SubSeq(Front(h), 1, i) \in Seq(Name)
        /\ Len(SubSeq(Front(h), 1, i)) = i
        /\ \A j \in 1..i : SubSeq(Front(h), 1, i)[j] = Front(h)[j]
    BY <2>1, <2>4, SubSeqProperties
  <2> QED BY <2>2, <2>5, <2>6, SeqEqual
<1>5. \A i \in 1..Len(Front(h)) : Kind(SubSeq(Front(h), 1, i)) # "link"
  <2> SUFFICES ASSUME NEW i \in 1..Len(Front(h))
               PROVE  Kind(SubSeq(Front(h), 1, i)) # "link"
    OBVIOUS
  <2>1. SubSeq(Front(h), 1, i) \notin DOMAIN LinkTo
    <3>1. i \in 1..Len(h)
      BY <1>1, <1>3
    <3> QED BY <1>2, <1>4, <3>1
  <2> QED BY <2>1 DEF LinksKept, Kind
<1>6. Links(Front(h)) = {}
  BY <1>5 DEF Links
<1>7. LResolve(s, h) = h
  BY <1>1, <1>3, <1>6 DEF LResolve, Resolve
<1> QED BY <1>7 DEF h

(* The same for what is at the end of a path.                              *)
LEMMA LResolveIn ==
  ASSUME NEW s, NEW u \in Users, NEW p \in Path, LinksKept, conn[s].root = Home[u],
         In(conn[s].root, p)
  PROVE  LResolve(s, p) \in Path /\ In(conn[s].root, LResolve(s, p))
<1> DEFINE r == Home[u]
<1>1. r \in Seq(Name) /\ r # <<>> /\ r \in Path
  BY LoginAssumption, NamePath
<1>2. CASE Lost(p)
  BY <1>2, LostLResolve DEF In
<1>3. CASE p = r
  BY <1>3, HomeLResolve
<1>4. CASE Under(r, p) /\ p # r
  <2>1. p # <<>> /\ Under(r, Front(p))
    BY <1>1, <1>4, UnderFront DEF Path
  <2>2. Front(p) \in Path /\ Last(p) \in Name \cup {None}
    BY <2>1, FrontLast DEF Path
  <2>3. Resolve(s, Front(p)) \in Path /\ Under(r, Resolve(s, Front(p)))
    BY <1>1, <2>1, <2>2, ResolveType
  <2>4. /\ Append(Resolve(s, Front(p)), Last(p)) \in Path
        /\ Under(r, Append(Resolve(s, Front(p)), Last(p)))
    BY <1>1, <2>2, <2>3, UnderAppend DEF Path
  <2> QED BY <2>1, <2>4 DEF LResolve, In
<1> QED BY <1>2, <1>3, <1>4 DEF In

-----------------------------------------------------------------------------
(* The inductive invariant                                                 *)

Calls == {"idle", "stat", "unlink", "mkdir", "rmdir", "chdir", "opendir",
          "readdir", "lstat", "remove"}

Types ==
    /\ conn \in [Sessions -> Connection]
    /\ kind \in [Paths -> Kinds]
    /\ op \in [Sessions -> Ops]
    /\ at \in [Sessions -> Calls]
    /\ entry \in [Sessions -> Path]
    /\ stack \in [Sessions -> Seq(Frame)]

(* Who is logged in is who the process is.                                 *)
Complete(c) ==
    c.authenticated => /\ c.username \in Users
                       /\ c.uid = c.username
                       /\ c.gid = c.username
                       /\ c.root = Home[c.username]
                       /\ Under(c.root, c.cwd) \/ c.cwd = Gone

(* What a command that has begun holds: a login, paths in the home or      *)
(* nowhere, and while it walks an open directory.                          *)
Held(c, a, e, k, o) ==
    /\ a # "idle" => c.authenticated
    /\ a \notin {"idle", "readdir"} => In(c.root, e)
    /\ \A i \in 1..Len(k) : In(c.root, k[i].path)
    /\ a = "idle" => k = <<>>
    /\ a \in {"readdir", "lstat", "remove"} => k # <<>>
    /\ a = "rmdir" /\ o.cmd = "DELE" => k # <<>>

Confined ==
    \A s \in Sessions : /\ Complete(conn[s])
                        /\ Held(conn[s], at[s], entry[s], stack[s], op[s])

FilesInv == Types /\ Confined /\ LinksKept

-----------------------------------------------------------------------------
(* What a step does to the processes and to the file system                *)

SameUser(c, d) ==
    /\ d.username = c.username
    /\ d.authenticated = c.authenticated
    /\ d.root = c.root
    /\ d.gid = c.gid
    /\ d.uid = c.uid

Moves ==
    /\ conn' \in [Sessions -> Connection]
    /\ \A t \in Sessions :
          /\ SameUser(conn[t], conn'[t])
          /\ \/ conn'[t].cwd = conn[t].cwd
             \/ conn'[t].cwd = Gone
             \/ Under(conn[t].root, conn'[t].cwd)

Changes(s) ==
    \/ kind' = kind
    \/ \E q \in Paths, k \in {"none", "file", "dir"} :
          /\ kind' = [kind EXCEPT ![q] = k]
          /\ conn[s].authenticated
          /\ Under(conn[s].root, q)
          /\ q # conn[s].root

(* The step of one session in its command.                                 *)
Turn(s, a, e, k, o) ==
    /\ at' = [at EXCEPT ![s] = a]
    /\ entry' = [entry EXCEPT ![s] = e]
    /\ stack' = [stack EXCEPT ![s] = k]
    /\ op' = [op EXCEPT ![s] = o]

Step(s, a, e, k, o) ==
    /\ Moves
    /\ Changes(s)
    /\ Turn(s, a, e, k, o)
    /\ a \in Calls /\ e \in Path /\ k \in Seq(Frame) /\ o \in Ops
    /\ Held(conn[s], a, e, k, o)

LEMMA HeldMoves ==
  ASSUME NEW c, NEW d, NEW a, NEW e, NEW k, NEW o, SameUser(c, d),
         Held(c, a, e, k, o)
  PROVE  Held(d, a, e, k, o)
BY DEF Held, SameUser

LEMMA CompleteMoves ==
  ASSUME NEW c, NEW d, SameUser(c, d), Complete(c),
         d.cwd = c.cwd \/ d.cwd = Gone \/ Under(c.root, d.cwd)
  PROVE  Complete(d)
BY DEF Complete, SameUser

LEMMA LinksStay ==
  ASSUME NEW s, Types, LinksKept, Changes(s)
  PROVE  LinksKept' /\ kind' \in [Paths -> Kinds]
<1>1. CASE kind' = kind
  BY <1>1 DEF LinksKept, Types
<1>2. CASE kind' # kind
  <2> PICK q \in Paths, k \in {"none", "file", "dir"} : kind' = [kind EXCEPT ![q] = k]
    BY <1>2 DEF Changes
  <2> QED BY DEF LinksKept, Types, Kinds
<1> QED BY <1>1, <1>2

LEMMA StepInv ==
  ASSUME FilesInv, NEW s \in Sessions, NEW a, NEW e, NEW k, NEW o, Step(s, a, e, k, o)
  PROVE  FilesInv'
<1>1. LinksKept' /\ kind' \in [Paths -> Kinds]
  BY LinksStay DEF FilesInv, Step
<1>2. Types'
  BY <1>1 DEF FilesInv, Types, Step, Moves, Turn
<1>3. ASSUME NEW t \in Sessions
      PROVE  Complete(conn'[t])
  BY CompleteMoves DEF FilesInv, Confined, Step, Moves
<1>4. ASSUME NEW t \in Sessions
      PROVE  Held(conn'[t], at'[t], entry'[t], stack'[t], op'[t])
  <2>1. SameUser(conn[t], conn'[t])
    BY DEF Step, Moves
  <2>2. CASE t = s
    <3>1. at'[t] = a /\ entry'[t] = e /\ stack'[t] = k /\ op'[t] = o
      BY <2>2 DEF FilesInv, Types, Step, Turn
    <3>2. Held(conn[t], a, e, k, o)
      BY <2>2 DEF Step
    <3> QED BY <2>1, <3>1, <3>2, HeldMoves
  <2>3. CASE t # s
    <3>1. at'[t] = at[t] /\ entry'[t] = entry[t] /\ stack'[t] = stack[t] /\ op'[t] = op[t]
      BY <2>3 DEF FilesInv, Types, Step, Turn
    <3>2. Held(conn[t], at[t], entry[t], stack[t], op[t])
      BY DEF FilesInv, Confined
    <3> QED BY <2>1, <3>1, <3>2, HeldMoves
  <2> QED BY <2>2, <2>3
<1>5. Confined'
  BY <1>3, <1>4 DEF Confined
<1> QED BY <1>1, <1>2, <1>5 DEF FilesInv

-----------------------------------------------------------------------------
(* The parts of the actions                                                *)

LEMMA Session1 ==
  ASSUME FilesInv, NEW s \in Sessions
  PROVE  /\ conn[s] \in Connection /\ conn[s].root \in Seq(Name) /\ conn[s].cwd \in Path
         /\ at[s] \in Calls /\ entry[s] \in Path /\ stack[s] \in Seq(Frame) /\ op[s] \in Ops
         /\ Complete(conn[s])
         /\ Held(conn[s], at[s], entry[s], stack[s], op[s])
         /\ LinksKept
<1>1. conn[s] \in Connection
  BY DEF FilesInv, Types
<1>2. conn[s].root \in Seq(Name) /\ conn[s].cwd \in Path
  BY <1>1 DEF Connection, Path
<1>3. at[s] \in Calls /\ entry[s] \in Path /\ stack[s] \in Seq(Frame) /\ op[s] \in Ops
  BY DEF FilesInv, Types
<1> QED BY <1>1, <1>2, <1>3 DEF FilesInv, Confined

LEMMA Quiet ==
  ASSUME FilesInv, NEW s \in Sessions, UNCHANGED <<conn, kind>>
  PROVE  Moves /\ Changes(s)
BY DEF FilesInv, Types, Moves, Changes, SameUser

LEMMA NoChangeQuiet ==
  ASSUME FilesInv, NEW s \in Sessions, NoChange(s)
  PROVE  Moves /\ Changes(s)
BY Quiet DEF NoChange

LEMMA ChangeInHome ==
  ASSUME FilesInv, NEW s \in Sessions, NEW q \in Paths, NEW k \in {"none", "file", "dir"},
         Change(s, q, k), conn[s].authenticated, Under(conn[s].root, q), q # conn[s].root
  PROVE  Moves /\ Changes(s)
<1>1. Changes(s)
  BY DEF Changes, Change
<1>2. CASE conn' = conn
  BY <1>1, <1>2 DEF FilesInv, Types, Moves, SameUser
<1>3. CASE conn' = [t \in Sessions |-> IF conn[t].cwd = q THEN [conn[t] EXCEPT !.cwd = Gone]
                                       ELSE conn[t]]
  <2>1. Gone \in Seq(Name \cup {None})
    BY DEF Gone
  <2>2. ASSUME NEW t \in Sessions
        PROVE  /\ conn'[t] \in Connection
               /\ SameUser(conn[t], conn'[t])
               /\ conn'[t].cwd = conn[t].cwd \/ conn'[t].cwd = Gone
    <3>1. conn[t] \in Connection
      BY DEF FilesInv, Types
    <3>2. conn'[t] = conn[t] \/ conn'[t] = [conn[t] EXCEPT !.cwd = Gone]
      BY <1>3
    <3> QED BY <2>1, <3>1, <3>2 DEF Connection, SameUser
  <2> QED BY <1>1, <1>3, <2>2 DEF Moves
<1> QED BY <1>2, <1>3 DEF Change

LEMMA AnswerInv ==
  ASSUME FilesInv, NEW s \in Sessions, NEW code, Moves, Changes(s), Answer(s, code)
  PROVE  FilesInv'
<1>1. Turn(s, "idle", <<>>, <<>>, NoOp)
  BY DEF Answer, Turn
<1>2. "idle" \in Calls /\ <<>> \in Path /\ <<>> \in Seq(Frame)
  BY DEF Calls, Path
<1>3. NoOp \in Ops
  BY <1>2 DEF NoOp, Ops
<1>4. Held(conn[s], "idle", <<>>, <<>>, NoOp)
  BY DEF Held
<1>5. Step(s, "idle", <<>>, <<>>, NoOp)
  BY <1>1, <1>2, <1>3, <1>4 DEF Step
<1> QED BY <1>5, StepInv

LEMMA GotoInv ==
  ASSUME FilesInv, NEW s \in Sessions, NEW a \in Calls, NEW e \in Path,
         NEW k \in Seq(Frame), Moves, Changes(s), Goto(s, a, e),
         stack' = [stack EXCEPT ![s] = k], Held(conn[s], a, e, k, op[s])
  PROVE  FilesInv'
<1>1. op' = [op EXCEPT ![s] = op[s]]
  BY DEF Goto, FilesInv, Types
<1>2. Turn(s, a, e, k, op[s])
  BY <1>1 DEF Goto, Turn
<1>3. Step(s, a, e, k, op[s])
  BY <1>2, Session1 DEF Step
<1> QED BY <1>3, StepInv

LEMMA SameStack ==
  ASSUME FilesInv, NEW s \in Sessions, UNCHANGED stack
  PROVE  stack' = [stack EXCEPT ![s] = stack[s]]
BY DEF FilesInv, Types

(* The next call is for the same path, and the stack stays.                *)
LEMMA AgainInv ==
  ASSUME FilesInv, NEW s \in Sessions, NEW a \in Calls, Moves, Changes(s),
         Goto(s, a, entry[s]), UNCHANGED stack,
         a # "idle", at[s] \notin {"idle", "readdir"},
         a \in {"readdir", "lstat", "remove"} => stack[s] # <<>>,
         a = "rmdir" /\ op[s].cmd = "DELE" => stack[s] # <<>>
  PROVE  FilesInv'
<1>1. Held(conn[s], a, entry[s], stack[s], op[s])
  BY Session1 DEF Held
<1> QED BY <1>1, Session1, SameStack, GotoInv

(* A change at the end of a path of a command.                             *)
LEMMA ChangeAt ==
  ASSUME FilesInv, NEW s \in Sessions, NEW k \in {"none", "file", "dir"},
         at[s] \notin {"idle", "readdir"}, LResolve(s, entry[s]) \in Paths,
         Writable(s, LResolve(s, entry[s])), Change(s, LResolve(s, entry[s]), k)
  PROVE  Moves /\ Changes(s)
<1> DEFINE q == LResolve(s, entry[s])
<1>1. conn[s].authenticated /\ In(conn[s].root, entry[s])
  BY Session1 DEF Held
<1>2. conn[s].username \in Users /\ conn[s].root = Home[conn[s].username]
  BY <1>1, Session1 DEF Complete
<1>3. q \in Path /\ In(conn[s].root, q)
  BY <1>1, <1>2, Session1, LResolveIn
<1>4. Under(conn[s].root, q)
  BY <1>3, InPaths
<1>5. q # conn[s].root
  BY DEF Writable
<1> HIDE DEF q
<1>6. q \in Paths /\ Change(s, q, k)
  BY DEF q
<1> QED BY <1>1, <1>4, <1>5, <1>6, ChangeInHome

LEMMA Somewhere ==
  ASSUME NEW p, Kind(p) # "none"
  PROVE  p \in Paths
BY DEF Kind

-----------------------------------------------------------------------------
(* The actions                                                             *)

LEMMA StatInv ==
  ASSUME FilesInv, NEW s \in Sessions, Stat(s)
  PROVE  FilesInv' /\ Changes(s)
<1>1. Moves /\ Changes(s)
  BY NoChangeQuiet DEF Stat
<1> SUFFICES FilesInv'
  BY <1>1
<1>2. at[s] = "stat"
  BY DEF Stat
<1>3. CASE Answer(s, 550)
  BY <1>1, <1>3, AnswerInv
<1>4. ASSUME NEW a \in {"opendir", "unlink", "mkdir", "chdir"},
             Goto(s, a, entry[s]), UNCHANGED stack
      PROVE  FilesInv'
  <2>1. a \in Calls
    BY DEF Calls
  <2> QED BY <1>1, <1>2, <1>4, <2>1, AgainInv
<1>5. ASSUME op[s].cmd = "RMD", Goto(s, "rmdir", entry[s]), UNCHANGED stack
      PROVE  FilesInv'
  <2>1. "rmdir" \in Calls
    BY DEF Calls
  <2> QED BY <1>1, <1>2, <1>5, <2>1, AgainInv
<1>6. CASE DeleStat(s)
  <2>1. \/ Answer(s, IF FALSE \/ op[s].force THEN 250 ELSE 550)
        \/ Answer(s, 550)
        \/ Goto(s, "opendir", entry[s]) /\ UNCHANGED stack
        \/ Goto(s, "unlink", entry[s]) /\ UNCHANGED stack
    BY <1>6, Zenon DEF DeleStat, Deleted
  <2>2. CASE Answer(s, IF FALSE \/ op[s].force THEN 250 ELSE 550)
    BY <1>1, <2>2, AnswerInv
  <2>4. CASE Goto(s, "opendir", entry[s]) /\ UNCHANGED stack
    BY <1>4, <2>4
  <2>5. CASE Goto(s, "unlink", entry[s]) /\ UNCHANGED stack
    BY <1>4, <2>5
  <2> QED BY <1>3, <2>1, <2>2, <2>4, <2>5
<1>7. CASE MkdStat(s)
  <2>1. Answer(s, 550) \/ (Goto(s, "mkdir", entry[s]) /\ UNCHANGED stack)
    BY <1>7, Zenon DEF MkdStat
  <2>2. CASE Goto(s, "mkdir", entry[s]) /\ UNCHANGED stack
    BY <1>4, <2>2
  <2> QED BY <1>3, <2>1, <2>2
<1>8. CASE RmdStat(s)
  <2>1. \/ Answer(s, 550)
        \/ op[s].cmd = "RMD" /\ Goto(s, "rmdir", entry[s]) /\ UNCHANGED stack
    BY <1>8, Zenon DEF RmdStat
  <2>2. CASE op[s].cmd = "RMD" /\ Goto(s, "rmdir", entry[s]) /\ UNCHANGED stack
    BY <1>5, <2>2
  <2> QED BY <1>3, <2>1, <2>2
<1>9. CASE CwdStat(s)
  <2>1. Answer(s, 550) \/ (Goto(s, "chdir", entry[s]) /\ UNCHANGED stack)
    BY <1>9, Zenon DEF CwdStat
  <2>2. CASE Goto(s, "chdir", entry[s]) /\ UNCHANGED stack
    BY <1>4, <2>2
  <2> QED BY <1>3, <2>1, <2>2
<1> QED BY <1>6, <1>7, <1>8, <1>9 DEF Stat

LEMMA UnlinkInv ==
  ASSUME FilesInv, NEW s \in Sessions, Unlink(s)
  PROVE  FilesInv' /\ Changes(s)
<1>1. Moves /\ Changes(s)
  <2>1. CASE CanUnlink(s, entry[s])
    <3>1. LResolve(s, entry[s]) \in Paths /\ Writable(s, LResolve(s, entry[s]))
      BY <2>1, Somewhere DEF CanUnlink, lstat
    <3>2. Change(s, LResolve(s, entry[s]), "none") /\ at[s] = "unlink"
      BY <2>1 DEF Unlink
    <3> QED BY <3>1, <3>2, ChangeAt
  <2>2. CASE ~CanUnlink(s, entry[s])
    BY <2>2, NoChangeQuiet DEF Unlink
  <2> QED BY <2>1, <2>2
<1> QED BY <1>1, AnswerInv DEF Unlink, Deleted

LEMMA MkdirInv ==
  ASSUME FilesInv, NEW s \in Sessions, Mkdir(s)
  PROVE  FilesInv' /\ Changes(s)
<1>1. Moves /\ Changes(s)
  <2>1. CASE CanCreate(s, LResolve(s, entry[s]))
    <3>1. LResolve(s, entry[s]) \in Paths /\ Writable(s, LResolve(s, entry[s]))
      BY <2>1 DEF CanCreate
    <3>2. Change(s, LResolve(s, entry[s]), "dir") /\ at[s] = "mkdir"
      BY <2>1 DEF Mkdir
    <3> QED BY <3>1, <3>2, ChangeAt
  <2>2. CASE ~CanCreate(s, LResolve(s, entry[s]))
    BY <2>2, NoChangeQuiet DEF Mkdir
  <2> QED BY <2>1, <2>2
<1> QED BY <1>1, AnswerInv DEF Mkdir

LEMMA RmdInv ==
  ASSUME FilesInv, NEW s \in Sessions, Rmd(s)
  PROVE  FilesInv' /\ Changes(s)
<1>1. Moves /\ Changes(s)
  <2>1. CASE CanRmdir(s, entry[s])
    <3>1. LResolve(s, entry[s]) \in Paths /\ Writable(s, LResolve(s, entry[s]))
      BY <2>1, Somewhere DEF CanRmdir, lstat
    <3>2. Change(s, LResolve(s, entry[s]), "none") /\ at[s] = "rmdir"
      BY <2>1 DEF Rmd
    <3> QED BY <3>1, <3>2, ChangeAt
  <2>2. CASE ~CanRmdir(s, entry[s])
    BY <2>2, NoChangeQuiet DEF Rmd
  <2> QED BY <2>1, <2>2
<1> QED BY <1>1, AnswerInv DEF Rmd

LEMMA ChdirInv ==
  ASSUME FilesInv, NEW s \in Sessions, Chdir(s)
  PROVE  FilesInv' /\ Changes(s)
<1>1. Moves /\ Changes(s)
  <2>1. CASE stat(s, entry[s]) = "dir"
    <3> DEFINE p == Resolve(s, entry[s])
    <3>1. In(conn[s].root, entry[s])
      BY Session1 DEF Held, Chdir
    <3>2. p \in Path /\ In(conn[s].root, p)
      BY <3>1, Session1, ResolveIn
    <3>3. p \in Paths
      BY <2>1, Somewhere DEF stat
    <3>4. Under(conn[s].root, p)
      BY <3>2, <3>3, InPaths
    <3>5. conn' = [conn EXCEPT ![s].cwd = p] /\ kind' = kind
      BY <2>1 DEF Chdir
    <3> HIDE DEF p
    <3>6. ASSUME NEW t \in Sessions
          PROVE  /\ conn'[t] \in Connection
                 /\ SameUser(conn[t], conn'[t])
                 /\ \/ conn'[t].cwd = conn[t].cwd
                    \/ Under(conn[t].root, conn'[t].cwd)
      <4>1. conn \in [Sessions -> Connection] /\ conn[t] \in Connection
        BY DEF FilesInv, Types
      <4>2. CASE t = s
        <5>1. conn'[t] = [conn[t] EXCEPT !.cwd = p]
          BY <3>5, <4>1, <4>2
        <5> QED BY <3>2, <3>4, <4>1, <4>2, <5>1 DEF Connection, SameUser, Path
      <4>3. CASE t # s
        <5>1. conn'[t] = conn[t]
          BY <3>5, <4>1, <4>3
        <5> QED BY <4>1, <5>1 DEF SameUser
      <4> QED BY <4>2, <4>3
    <3>7. conn' \in [Sessions -> Connection]
      <4>1. DOMAIN conn' = Sessions /\ conn' = [t \in DOMAIN conn' |-> conn'[t]]
        BY <3>5 DEF FilesInv, Types
      <4> QED BY <3>6, <4>1
    <3> QED BY <3>5, <3>6, <3>7 DEF Moves, Changes
  <2>2. CASE stat(s, entry[s]) # "dir"
    BY <2>2, NoChangeQuiet DEF Chdir
  <2> QED BY <2>1, <2>2
<1> QED BY <1>1, AnswerInv DEF Chdir

LEMMA OpenDirInv ==
  ASSUME FilesInv, NEW s \in Sessions, OpenDir(s)
  PROVE  FilesInv' /\ Changes(s)
<1>1. Moves /\ Changes(s)
  BY NoChangeQuiet DEF OpenDir
<1>2. CASE stat(s, entry[s]) # "dir"
  BY <1>1, <1>2, AnswerInv DEF OpenDir, Deleted
<1>3. CASE stat(s, entry[s]) = "dir"
  <2> DEFINE f == [path |-> entry[s], seen |-> {}, old |-> Names(Resolve(s, entry[s]))]
             k == Append(stack[s], f)
  <2>1. f \in Frame /\ f.path = entry[s]
    BY Session1 DEF Frame, Names
  <2>2. stack' = [stack EXCEPT ![s] = k] /\ Goto(s, "readdir", <<>>)
    BY <1>3 DEF OpenDir
  <2>3. conn[s].authenticated /\ In(conn[s].root, entry[s])
        /\ \A i \in 1..Len(stack[s]) : In(conn[s].root, stack[s][i].path)
    BY Session1 DEF Held, OpenDir
  <2> HIDE DEF f
  <2>4. k \in Seq(Frame) /\ k # <<>> /\ Len(k) = Len(stack[s]) + 1
        /\ (\A i \in 1..Len(stack[s]) : k[i] = stack[s][i]) /\ k[Len(stack[s]) + 1] = f
    BY <2>1, Session1, AppendProperties
  <2> HIDE DEF k
  <2>5. ASSUME NEW i \in 1..Len(k)
        PROVE  In(conn[s].root, k[i].path)
    <3>1. i \in 1..Len(stack[s]) \/ i = Len(stack[s]) + 1
      BY <2>4, Session1
    <3> QED BY <2>1, <2>3, <2>4, <3>1
  <2>6. Held(conn[s], "readdir", <<>>, k, op[s])
    BY <2>3, <2>4, <2>5 DEF Held
  <2>7. "readdir" \in Calls /\ <<>> \in Path
    BY DEF Calls, Path
  <2> QED BY <1>1, <2>2, <2>4, <2>6, <2>7, GotoInv
<1> QED BY <1>1, <1>2, <1>3

LEMMA ReadDirInv ==
  ASSUME FilesInv, NEW s \in Sessions, ReadDir(s)
  PROVE  FilesInv' /\ Changes(s)
<1> DEFINE top == Last(stack[s])
<1>1. Moves /\ Changes(s)
  BY NoChangeQuiet DEF ReadDir
<1>2. stack[s] \in Seq(Frame) /\ stack[s] # <<>> /\ conn[s].authenticated
      /\ \A i \in 1..Len(stack[s]) : In(conn[s].root, stack[s][i].path)
  BY Session1 DEF Held, ReadDir
<1>3. /\ Front(stack[s]) \in Seq(Frame) /\ Len(Front(stack[s])) = Len(stack[s]) - 1
      /\ \A i \in 1..(Len(stack[s]) - 1) : Front(stack[s])[i] = stack[s][i]
      /\ top \in Frame /\ top = stack[s][Len(stack[s])]
  BY <1>2, FrontLast
<1>4. Len(stack[s]) \in Nat /\ Len(stack[s]) >= 1
  BY <1>2
<1>5. top.path \in Path /\ In(conn[s].root, top.path)
  BY <1>2, <1>3, <1>4 DEF Frame
<1>6. ASSUME NEW n \in top.old \cup (Names(Resolve(s, top.path)) \ top.seen),
             stack' = [stack EXCEPT ![s] =
                          Append(Front(@), [top EXCEPT !.old = @ \ {n},
                                                       !.seen = @ \cup {n}])],
             Goto(s, "lstat", Append(top.path, n))
      PROVE  FilesInv'
  <2> DEFINE f == [top EXCEPT !.old = @ \ {n}, !.seen = @ \cup {n}]
             k == Append(Front(stack[s]), f)
             e == Append(top.path, n)
  <2>1. n \in Name
    BY <1>3 DEF Frame, Names
  <2>2. f \in Frame /\ f.path = top.path
    BY <1>3, <2>1 DEF Frame
  <2>3. stack' = [stack EXCEPT ![s] = k]
    BY <1>6 DEF FilesInv, Types
  <2>4. e \in Path /\ In(conn[s].root, e)
    <3>1. CASE Under(conn[s].root, top.path)
      BY <1>5, <2>1, <3>1, UnderAppend, Session1, NamePath DEF Path, In
    <3>2. CASE Lost(top.path)
      BY <1>5, <2>1, <3>2, AppendProperties DEF Path, In, Lost
    <3> QED BY <1>5, <3>1, <3>2 DEF In
  <2> HIDE DEF f, e
  <2>5. k \in Seq(Frame) /\ k # <<>> /\ Len(k) = Len(Front(stack[s])) + 1
        /\ (\A i \in 1..Len(Front(stack[s])) : k[i] = Front(stack[s])[i])
        /\ k[Len(Front(stack[s])) + 1] = f
    BY <1>3, <2>2, AppendProperties
  <2> HIDE DEF k, top
  <2>6. ASSUME NEW i \in 1..Len(k)
        PROVE  In(conn[s].root, k[i].path)
    <3>1. CASE i = Len(stack[s])
      BY <1>3, <1>4, <1>5, <2>2, <2>5, <3>1
    <3>2. CASE i # Len(stack[s])
      <4>1. i \in 1..(Len(stack[s]) - 1) /\ i \in 1..Len(stack[s])
        BY <1>3, <1>4, <2>5, <3>2
      <4>2. k[i] = stack[s][i]
        BY <1>3, <2>5, <4>1
      <4> QED BY <1>2, <4>1, <4>2
    <3> QED BY <3>1, <3>2
  <2>7. Held(conn[s], "lstat", e, k, op[s])
    BY <1>2, <2>4, <2>5, <2>6 DEF Held
  <2>8. "lstat" \in Calls
    BY DEF Calls
  <2>9. Goto(s, "lstat", e)
    BY <1>6 DEF e, top
  <2> QED BY <1>1, <2>3, <2>4, <2>5, <2>7, <2>8, <2>9, GotoInv
<1>7. ASSUME stack' = stack, Goto(s, "rmdir", top.path)
      PROVE  FilesInv'
  <2>1. Held(conn[s], "rmdir", top.path, stack[s], op[s])
    BY <1>2, <1>5 DEF Held
  <2>2. "rmdir" \in Calls
    BY DEF Calls
  <2> HIDE DEF top
  <2> QED BY <1>1, <1>2, <1>5, <1>7, <2>1, <2>2, SameStack, GotoInv
<1> QED BY <1>1, <1>6, <1>7 DEF ReadDir

LEMMA LstatInv ==
  ASSUME FilesInv, NEW s \in Sessions, Lstat(s)
  PROVE  FilesInv' /\ Changes(s)
<1>1. Moves /\ Changes(s)
  BY NoChangeQuiet DEF Lstat
<1>2. at[s] = "lstat" /\ UNCHANGED stack
  BY DEF Lstat
<1>3. stack[s] # <<>>
  BY <1>2, Session1 DEF Held
<1>4. \E a \in {"readdir", "opendir", "remove"} : Goto(s, a, entry[s])
  BY DEF Lstat
<1>5. PICK a \in {"readdir", "opendir", "remove"} : Goto(s, a, entry[s])
  BY <1>4
<1>6. a \in Calls
  BY DEF Calls
<1> QED BY <1>1, <1>2, <1>3, <1>5, <1>6, AgainInv

(* The walk goes on with the directory on top of the stack.                *)
LEMMA ReadOnInv ==
  ASSUME FilesInv, NEW s \in Sessions, NEW k \in Seq(Frame), Moves, Changes(s),
         Goto(s, "readdir", <<>>), stack' = [stack EXCEPT ![s] = k],
         conn[s].authenticated, k # <<>>,
         \A i \in 1..Len(k) : In(conn[s].root, k[i].path)
  PROVE  FilesInv'
<1>1. Held(conn[s], "readdir", <<>>, k, op[s])
  BY DEF Held
<1>2. "readdir" \in Calls /\ <<>> \in Path
  BY DEF Calls, Path
<1> QED BY <1>1, <1>2, GotoInv

LEMMA UnlinkEntryInv ==
  ASSUME FilesInv, NEW s \in Sessions, UnlinkEntry(s)
  PROVE  FilesInv' /\ Changes(s)
<1>1. Moves /\ Changes(s)
  <2>1. CASE CanUnlink(s, entry[s])
    <3>1. LResolve(s, entry[s]) \in Paths /\ Writable(s, LResolve(s, entry[s]))
      BY <2>1, Somewhere DEF CanUnlink, lstat
    <3>2. Change(s, LResolve(s, entry[s]), "none") /\ at[s] = "remove"
      BY <2>1 DEF UnlinkEntry
    <3> QED BY <3>1, <3>2, ChangeAt
  <2>2. CASE ~CanUnlink(s, entry[s])
    BY <2>2, NoChangeQuiet DEF UnlinkEntry
  <2> QED BY <2>1, <2>2
<1>2. Goto(s, "readdir", <<>>) /\ UNCHANGED stack /\ at[s] = "remove"
  BY DEF UnlinkEntry
<1>3. conn[s].authenticated /\ stack[s] # <<>>
      /\ \A i \in 1..Len(stack[s]) : In(conn[s].root, stack[s][i].path)
  BY <1>2, Session1 DEF Held
<1> QED BY <1>1, <1>2, <1>3, Session1, SameStack, ReadOnInv

LEMMA RmdirInv ==
  ASSUME FilesInv, NEW s \in Sessions, Rmdir(s)
  PROVE  FilesInv' /\ Changes(s)
<1>1. Moves /\ Changes(s)
  <2>1. CASE CanRmdir(s, entry[s])
    <3>1. LResolve(s, entry[s]) \in Paths /\ Writable(s, LResolve(s, entry[s]))
      BY <2>1, Somewhere DEF CanRmdir, lstat
    <3>2. Change(s, LResolve(s, entry[s]), "none") /\ at[s] = "rmdir"
      BY <2>1 DEF Rmdir
    <3> QED BY <3>1, <3>2, ChangeAt
  <2>2. CASE ~CanRmdir(s, entry[s])
    BY <2>2, NoChangeQuiet DEF Rmdir
  <2> QED BY <2>1, <2>2
<1>2. CASE ~CanRmdir(s, entry[s]) \/ Len(stack[s]) = 1
  BY <1>1, <1>2, AnswerInv DEF Rmdir, Return, Deleted
<1>3. CASE CanRmdir(s, entry[s]) /\ Len(stack[s]) # 1
  <2> DEFINE k == Front(stack[s])
  <2>1. stack' = [stack EXCEPT ![s] = k] /\ Goto(s, "readdir", <<>>)
    <3>1. Return(s)
      BY <1>3 DEF Rmdir
    <3>2. stack' = [stack EXCEPT ![s] = Front(@)] /\ Goto(s, "readdir", <<>>)
      BY <1>3, <3>1, Zenon DEF Return
    <3> QED BY <3>2 DEF FilesInv, Types
  <2>2. stack[s] \in Seq(Frame) /\ stack[s] # <<>> /\ conn[s].authenticated
        /\ \A i \in 1..Len(stack[s]) : In(conn[s].root, stack[s][i].path)
    BY Session1 DEF Held, Rmdir
  <2>3. k \in Seq(Frame) /\ Len(k) = Len(stack[s]) - 1
        /\ \A i \in 1..(Len(stack[s]) - 1) : k[i] = stack[s][i]
    BY <2>2, FrontLast
  <2> HIDE DEF k
  <2>4. Len(stack[s]) \in Nat /\ Len(stack[s]) >= 2
    <3> DEFINE n == Len(stack[s])
    <3>1. n \in Nat /\ n # 0
      BY <2>2
    <3>2. n # 1
      BY <1>3
    <3> HIDE DEF n
    <3>3. n >= 2
      BY <3>1, <3>2
    <3> QED BY <3>1, <3>3 DEF n
  <2>5. k # <<>>
    BY <2>3, <2>4
  <2>6. \A i \in 1..Len(k) : In(conn[s].root, k[i].path)
    BY <2>2, <2>3, <2>4
  <2> QED BY <1>1, <2>1, <2>2, <2>3, <2>5, <2>6, ReadOnInv
<1> QED BY <1>1, <1>2, <1>3

(* A path that starts at a removed directory stays lost.                   *)
LEMMA LostConcat ==
  ASSUME NEW S, NEW g \in Seq(S), NEW x \in Seq(S), Lost(g)
  PROVE  g \o x \in Seq(S) /\ Lost(g \o x)
<1>1. g \o x \in Seq(S) /\ Len(g \o x) = Len(g) + Len(x)
  OBVIOUS
<1>2. \A i \in 1..Len(g) : (g \o x)[i] = g[i]
  OBVIOUS
<1>3. Len(g) >= 1 /\ g[1] = None /\ Len(g) \in Nat /\ Len(x) \in Nat
  BY DEF Lost
<1>4. (g \o x)[1] = None
  BY <1>2, <1>3
<1>5. Len(g \o x) >= 1
  BY <1>1, <1>3
<1> QED BY <1>1, <1>4, <1>5 DEF Lost

(* A path that a client names.                                             *)
LEMMA NamedIn ==
  ASSUME FilesInv, NEW s \in Sessions, conn[s].authenticated, NEW n \in Named(s)
  PROVE  n.path \in Path /\ In(conn[s].root, n.path)
<1>1. PICK a \in Args, base \in {conn[s].root, conn[s].cwd} :
         n = [arg |-> a, path |-> base \o a]
  BY DEF Named
<1>2. n.path = base \o a
  BY <1>1
<1>3. a \in Path /\ conn[s].root \in Path /\ conn[s].cwd \in Path
  BY FilesAssumption, NamePath, Session1
<1>4. Under(conn[s].root, conn[s].root)
  BY <1>3, UnderSelf DEF Path
<1>5. Under(conn[s].root, conn[s].cwd) \/ conn[s].cwd = Gone
  BY Session1 DEF Complete
<1>6. CASE Under(conn[s].root, base)
  BY <1>1, <1>2, <1>3, <1>6, UnderConcat DEF Path, In
<1>7. CASE base = Gone
  <2>1. Gone \in Seq(Name \cup {None}) /\ Lost(Gone)
    BY DEF Gone, Lost
  <2> QED BY <1>2, <1>3, <1>7, <2>1, LostConcat DEF In, Path
<1> QED BY <1>1, <1>4, <1>5, <1>6, <1>7

LEMMA BeginInv ==
  ASSUME FilesInv, NEW s \in Sessions, NEW cmd \in {"DELE", "MKD", "RMD", "CWD"},
         NEW f \in BOOLEAN, NEW r \in BOOLEAN, Begin(s, cmd, f, r)
  PROVE  FilesInv' /\ Changes(s)
<1>1. conn[s].authenticated /\ at[s] = "idle"
  BY DEF Begin, Ready
<1>2. PICK n \in Named(s) :
         \/ /\ ~is_path_safe(n.arg)
            /\ Answer(s, Unsafe(cmd))
            /\ NoChange(s)
         \/ /\ is_path_safe(n.arg)
            /\ op' = [op EXCEPT ![s] = [cmd |-> cmd, path |-> n.path,
                                        force |-> f, recursive |-> r]]
            /\ at' = [at EXCEPT ![s] = "stat"]
            /\ entry' = [entry EXCEPT ![s] = n.path]
            /\ goal' = [goal EXCEPT ![s] = Resolve(s, n.path)]
            /\ Silent
            /\ UNCHANGED <<conn, kind, stack, disturbed>>
  BY DEF Begin
<1>3. CASE Answer(s, Unsafe(cmd)) /\ NoChange(s)
  BY <1>3, NoChangeQuiet, AnswerInv
<1>4. CASE /\ op' = [op EXCEPT ![s] = [cmd |-> cmd, path |-> n.path,
                                       force |-> f, recursive |-> r]]
           /\ at' = [at EXCEPT ![s] = "stat"]
           /\ entry' = [entry EXCEPT ![s] = n.path]
           /\ UNCHANGED <<conn, kind, stack>>
  <2> DEFINE o == [cmd |-> cmd, path |-> n.path, force |-> f, recursive |-> r]
  <2>1. n.path \in Path /\ In(conn[s].root, n.path)
    BY <1>1, NamedIn
  <2>2. o \in Ops
    BY <2>1 DEF Ops
  <2>3. stack[s] = <<>> /\ <<>> \in Seq(Frame)
    BY <1>1, Session1 DEF Held
  <2>4. stack' = [stack EXCEPT ![s] = <<>>]
    BY <1>4, <2>3, SameStack
  <2>5. Turn(s, "stat", n.path, <<>>, o)
    BY <1>4, <2>4 DEF Turn
  <2>6. Held(conn[s], "stat", n.path, <<>>, o)
    BY <1>1, <2>1 DEF Held
  <2> HIDE DEF o
  <2>7. Moves /\ Changes(s)
    BY <1>4, Quiet
  <2>8. Step(s, "stat", n.path, <<>>, o)
    BY <2>1, <2>2, <2>3, <2>5, <2>6, <2>7 DEF Step, Calls
  <2> QED BY <2>7, <2>8, StepInv
<1> QED BY <1>2, <1>3, <1>4

LEMMA StorOpenInv ==
  ASSUME FilesInv, NEW s \in Sessions, StorOpen(s)
  PROVE  FilesInv' /\ Changes(s)
<1>1. conn[s].authenticated /\ at[s] = "idle" /\ UNCHANGED <<op, at, entry, stack>>
  BY DEF StorOpen, Ready
<1>2. PICK n \in Named(s) : \E q \in Target(s, n) : CanCreate(s, q) /\ Change(s, q, "file")
  BY DEF StorOpen
<1>3. PICK q \in Target(s, n) : CanCreate(s, q) /\ Change(s, q, "file")
  BY <1>2
<1>4. q \in Paths /\ q # conn[s].root
  BY <1>3 DEF CanCreate, Writable
<1>5. Under(conn[s].root, q)
  <2>1. CASE q = Resolve(s, n.path)
    <3>1. n.path \in Path /\ In(conn[s].root, n.path)
      BY <1>1, NamedIn
    <3>2. q \in Path /\ In(conn[s].root, q)
      BY <2>1, <3>1, Session1, ResolveIn
    <3> QED BY <1>4, <3>2, InPaths
  <2> QED BY <1>3, <2>1 DEF Target
<1>6. Moves /\ Changes(s)
  BY <1>1, <1>3, <1>4, <1>5, ChangeInHome
<1>7. Turn(s, at[s], entry[s], stack[s], op[s])
  BY <1>1 DEF Turn, FilesInv, Types
<1>8. Step(s, at[s], entry[s], stack[s], op[s])
  BY <1>6, <1>7, Session1 DEF Step
<1> QED BY <1>6, <1>8, StepInv

LEMMA RepliesInv ==
  ASSUME FilesInv, NEW s \in Sessions,
         \/ cftp_size_authenticated_action(s)
         \/ handle_mdtm_command(s)
         \/ cftp_pwd_authenticated_action(s)
  PROVE  FilesInv' /\ Changes(s)
<1>1. NoChange(s)
  BY DEF cftp_size_authenticated_action, handle_mdtm_command, cftp_pwd_authenticated_action
<1>2. \E code \in {213, 257, 550} : Answer(s, code)
  <2>1. CASE cftp_size_authenticated_action(s)
    BY <2>1 DEF cftp_size_authenticated_action, FileReply
  <2>2. CASE handle_mdtm_command(s)
    BY <2>2 DEF handle_mdtm_command, FileReply
  <2>3. CASE cftp_pwd_authenticated_action(s)
    BY <2>3 DEF cftp_pwd_authenticated_action
  <2> QED BY <2>1, <2>2, <2>3
<1>3. PICK code \in {213, 257, 550} : Answer(s, code)
  BY <1>2
<1> QED BY <1>1, <1>3, NoChangeQuiet, AnswerInv

-----------------------------------------------------------------------------
(* The login                                                               *)

LEMMA FreshOK == Fresh \in Connection /\ Complete(Fresh) /\ ~Fresh.authenticated
<1>1. <<>> \in Seq(Name) /\ <<>> \in Seq(Name \cup {None})
  OBVIOUS
<1> QED BY <1>1 DEF Fresh, Connection, Complete

(* What USER and PASS make of a session that is not logged in.             *)
LEMMA UserOK ==
  ASSUME NEW c \in Connection, ~c.authenticated, NEW name
  PROVE  user_exists(c, name) \in Connection /\ Complete(user_exists(c, name))
<1>1. CASE name # Superuser /\ getpwnam(c, name)
  <2>1. name \in Users
    BY <1>1 DEF getpwnam
  <2>2. user_exists(c, name) = [c EXCEPT !.username = name]
    BY <1>1 DEF user_exists
  <2> QED BY <2>1, <2>2 DEF Connection, Complete
<1>2. CASE ~(name # Superuser /\ getpwnam(c, name))
  BY <1>2 DEF user_exists, Complete
<1> QED BY <1>1, <1>2

LEMMA PassOK ==
  ASSUME NEW c \in Connection, ~c.authenticated,
         NEW d \in authenticate_and_switch_user(c)
  PROVE  d \in Connection /\ Complete(d)
<1>1. CASE ~getpwnam(c, c.username)
  BY <1>1 DEF authenticate_and_switch_user, Failed, Succeeded, Complete
<1>2. CASE getpwnam(c, c.username)
  <2> DEFINE u == c.username
             c1 == chroot(c)
             c2 == chdir(c1)
             c3 == setgid(c2)
             c4 == setuid(c3)
             c5 == [c4 EXCEPT !.authenticated = TRUE]
  <2>1. u \in Users
    BY <1>2, LoginAssumption DEF getpwnam, Connection
  <2>2. Home[u] \in Seq(Name) /\ Home[u] \in Seq(Name \cup {None})
    BY <2>1, LoginAssumption, NamePath DEF Path
  <2>3. /\ c1 \in Connection /\ ~c1.authenticated /\ c1.username = u
        /\ c1.root = Home[u]
    BY <2>2 DEF chroot, Connection
  <2> HIDE DEF c1
  <2>4. /\ c2 \in Connection /\ ~c2.authenticated /\ c2.username = u
        /\ c2.root = Home[u] /\ c2.cwd = Home[u]
    BY <2>2, <2>3 DEF chdir, Connection
  <2> HIDE DEF c2
  <2>5. /\ c3 \in Connection /\ ~c3.authenticated /\ c3.username = u
        /\ c3.root = Home[u] /\ c3.cwd = Home[u] /\ c3.gid = u
    BY <2>1, <2>4 DEF setgid, Connection
  <2> HIDE DEF c3
  <2>6. /\ c4 \in Connection /\ ~c4.authenticated /\ c4.username = u
        /\ c4.root = Home[u] /\ c4.cwd = Home[u] /\ c4.gid = u /\ c4.uid = u
    BY <2>1, <2>5 DEF setuid, Connection
  <2> HIDE DEF c4
  <2>7. /\ c5 \in Connection /\ c5.username = u
        /\ c5.root = Home[u] /\ c5.cwd = Home[u] /\ c5.gid = u /\ c5.uid = u
    BY <2>6 DEF Connection
  <2> HIDE DEF c5
  <2>8. d \in {c, c1, c2, c3, c5}
    BY <1>2 DEF authenticate_and_switch_user, Failed, Succeeded, c1, c2, c3, c4, c5
  <2>9. Under(Home[u], Home[u])
    BY <2>2, UnderSelf
  <2>10. Complete(c5)
    BY <2>1, <2>7, <2>9 DEF Complete
  <2>11. Complete(c) /\ Complete(c1) /\ Complete(c2) /\ Complete(c3)
    BY <2>3, <2>4, <2>5 DEF Complete
  <2> QED BY <2>3, <2>4, <2>5, <2>7, <2>8, <2>10, <2>11
<1> QED BY <1>1, <1>2

LEMMA LoginInv ==
  ASSUME FilesInv, NEW s \in Sessions, LoginStep(s)
  PROVE  FilesInv' /\ Changes(s)
<1>1. at[s] = "idle" /\ UNCHANGED <<kind, op, at, entry, stack>>
  BY DEF LoginStep
<1>2. \E d \in Connection : Complete(d) /\ conn' = [conn EXCEPT ![s] = d]
  <2>1. CASE cftp_user_authenticated(s)
    BY <2>1, Session1, UserOK DEF cftp_user_authenticated
  <2>2. CASE cftp_pass_authenticated(s)
    BY <2>2, Session1, PassOK DEF cftp_pass_authenticated
  <2>3. CASE Reconnect(s)
    BY <2>3, FreshOK DEF Reconnect
  <2> QED BY <2>1, <2>2, <2>3 DEF LoginStep
<1>3. PICK d \in Connection : Complete(d) /\ conn' = [conn EXCEPT ![s] = d]
  BY <1>2
<1>4. stack[s] = <<>>
  BY <1>1, Session1 DEF Held
<1>5. Types' /\ LinksKept'
  BY <1>1, <1>3 DEF FilesInv, Types, LinksKept
<1>6. ASSUME NEW t \in Sessions
      PROVE  Complete(conn'[t]) /\ Held(conn'[t], at[t], entry[t], stack[t], op[t])
  <2>1. CASE t = s
    <3>1. conn'[t] = d
      BY <1>3, <2>1 DEF FilesInv, Types
    <3>2. Held(d, at[t], entry[t], stack[t], op[t])
      BY <1>1, <1>4, <2>1 DEF Held
    <3> QED BY <1>3, <3>1, <3>2
  <2>2. CASE t # s
    <3>1. conn'[t] = conn[t]
      BY <1>3, <2>2 DEF FilesInv, Types
    <3> QED BY <3>1, Session1
  <2> QED BY <2>1, <2>2
<1>7. Confined'
  BY <1>1, <1>6 DEF Confined
<1>8. Changes(s)
  BY <1>1 DEF Changes
<1> QED BY <1>5, <1>7, <1>8 DEF FilesInv

-----------------------------------------------------------------------------
LEMMA InitInv == Init => FilesInv
<1> SUFFICES ASSUME Init PROVE FilesInv
  OBVIOUS
<1>1. <<>> \in Path /\ <<>> \in Seq(Frame) /\ "idle" \in Calls
  BY DEF Path, Calls
<1>2. NoOp \in Ops
  BY <1>1 DEF NoOp, Ops
<1>3. Types
  BY <1>1, <1>2, FreshOK, FilesAssumption DEF Init, LoginInit, Types
<1>4. LinksKept
  BY FilesAssumption DEF Init, LinksKept
<1>5. ASSUME NEW s \in Sessions
      PROVE  Complete(conn[s]) /\ Held(conn[s], at[s], entry[s], stack[s], op[s])
  <2>1. conn[s] = Fresh /\ at[s] = "idle" /\ stack[s] = <<>>
    BY DEF Init, LoginInit
  <2>2. Held(conn[s], at[s], entry[s], stack[s], op[s])
    BY <2>1 DEF Held
  <2> QED BY <2>1, <2>2, FreshOK
<1> QED BY <1>3, <1>4, <1>5 DEF FilesInv, Confined

(* What changes is in the home of the session that acts.                   *)
LEMMA NextInv ==
  ASSUME FilesInv, Next
  PROVE  FilesInv' /\ \E s \in Sessions : Changes(s)
<1> PICK s \in Sessions :
        \/ LoginStep(s)
        \/ handle_dele_command(s)
        \/ cftp_mkd_authenticated_action(s)
        \/ cftp_rmd_authenticated_action(s)
        \/ cftp_cwd_authenticated_action(s)
        \/ cftp_size_authenticated_action(s)
        \/ handle_mdtm_command(s)
        \/ cftp_pwd_authenticated_action(s)
        \/ StorOpen(s)
        \/ Call(s)
  BY DEF Next
<1> SUFFICES FilesInv' /\ Changes(s)
  OBVIOUS
<1>1. CASE LoginStep(s)
  BY <1>1, LoginInv
<1>2. CASE handle_dele_command(s)
  BY <1>2, BeginInv DEF handle_dele_command
<1>3. CASE \/ cftp_mkd_authenticated_action(s)
           \/ cftp_rmd_authenticated_action(s)
           \/ cftp_cwd_authenticated_action(s)
  BY <1>3, BeginInv DEF cftp_mkd_authenticated_action, cftp_rmd_authenticated_action,
                        cftp_cwd_authenticated_action
<1>4. CASE \/ cftp_size_authenticated_action(s)
           \/ handle_mdtm_command(s)
           \/ cftp_pwd_authenticated_action(s)
  BY <1>4, RepliesInv
<1>5. CASE StorOpen(s)
  BY <1>5, StorOpenInv
<1>6. CASE Call(s)
  BY <1>6, StatInv, UnlinkInv, MkdirInv, RmdInv, ChdirInv, OpenDirInv, ReadDirInv,
     LstatInv, UnlinkEntryInv, RmdirInv DEF Call
<1> QED BY <1>1, <1>2, <1>3, <1>4, <1>5, <1>6

LEMMA StutterInv ==
  ASSUME FilesInv, UNCHANGED vars
  PROVE  FilesInv'
BY DEF FilesInv, Types, Confined, LinksKept, vars

(* The invariant of login and file commands, for any file tree, users,     *)
(* arguments and number of sessions.                                       *)
THEOREM FilesSafe == Spec => []FilesInv
<1>1. FilesInv /\ [Next]_vars => FilesInv'
  BY NextInv, StutterInv
<1> QED BY <1>1, InitInv, PTL DEF Spec

(* A login that failed half way never makes up for another: who is logged  *)
(* in is the user of the process, its group and its root directory.        *)
THEOREM LoginsComplete == Spec => []LoginComplete
<1>1. FilesInv => LoginComplete
  BY DEF FilesInv, Confined, Complete, LoginComplete
<1> QED BY <1>1, FilesSafe, PTL

(* CWD leads nowhere but into the home of the user.                        *)
THEOREM StaysInJail == Spec => []Jailed
<1>1. FilesInv => Jailed
  BY DEF FilesInv, Confined, Complete, Jailed
<1> QED BY <1>1, FilesSafe, PTL

(* Whatever links there are and whatever is stale, a command changes       *)
(* nothing outside of the home of its user, nor the home itself.           *)
THEOREM ChangesOwnHome == Spec => OnlyOwnHome
<1> DEFINE Own == \A q \in Paths : kind'[q] # kind[q] =>
                     \E s \in Sessions : /\ conn[s].authenticated
                                        /\ Under(Home[conn[s].uid], q)
                                        /\ q # Home[conn[s].uid]
<1>1. FilesInv /\ [Next]_vars => [Own]_vars
  <2> SUFFICES ASSUME FilesInv, Next PROVE Own
    BY DEF vars
  <2>1. PICK s \in Sessions : Changes(s)
    BY NextInv
  <2>2. CASE kind' = kind
    BY <2>2
  <2>3. CASE kind' # kind
    <3>1. PICK q \in Paths, k \in {"none", "file", "dir"} :
             /\ kind' = [kind EXCEPT ![q] = k]
             /\ conn[s].authenticated
             /\ Under(conn[s].root, q)
             /\ q # conn[s].root
      BY <2>1, <2>3 DEF Changes
    <3>2. conn[s].root = Home[conn[s].uid]
      BY <3>1, Session1 DEF Complete
    <3>3. \A p \in Paths : kind'[p] # kind[p] => p = q
      BY <3>1 DEF FilesInv, Types
    <3> QED BY <3>1, <3>2, <3>3
  <2> QED BY <2>2, <2>3
<1> QED BY <1>1, FilesSafe, PTL DEF Spec, OnlyOwnHome

=============================================================================
