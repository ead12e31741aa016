----------------------------- MODULE ServerProofs -----------------------------
(***************************************************************************)
(* The invariants of Server, for any number of sessions and any limit.     *)
(***************************************************************************)
EXTENDS Server, FiniteSetTheorems, TLAPS

(* The initial state.                                                      *)
LEMMA InitInv == Init => ServerInv
<1> SUFFICES ASSUME Init PROVE ServerInv
  OBVIOUS
<1>1. TypeOK
  <2>1. forked \in 0..N
    BY ServerAssumption DEF Init
  <2>2. /\ pipe_w \in [Children -> SUBSET (Children \cup {Parent})]
        /\ rpc_p \in [Children -> SUBSET (Children \cup {Parent})]
    BY DEF Init
  <2> QED BY <2>1, <2>2 DEF Init, TypeOK
<1>2. Counts
  BY ServerAssumption DEF Init, Counts
<1>3. Holders
  <2>1. \A i \in Children : ~ (i <= forked)
    BY ServerAssumption DEF Init, Children
  <2> QED BY <2>1 DEF Init, Holders
<1>4. Dialogue /\ ZombiesSignalled /\ SignalToParent
  BY DEF Init, Dialogue, ZombiesSignalled, SignalToParent
<1> QED BY <1>1, <1>2, <1>3, <1>4 DEF ServerInv

(* A process that ends takes its descriptors with it.                      *)
LEMMA ReleaseFacts ==
    ASSUME NEW h \in [Children -> SUBSET (Children \cup {Parent})], NEW p
    PROVE  /\ Release(h, p) \in [Children -> SUBSET (Children \cup {Parent})]
           /\ \A j \in Children : Release(h, p)[j] = h[j] \ {p}
  BY DEF Release

(* What fork adds to the holders of a descriptor.                          *)
LEMMA InheritFacts ==
    ASSUME NEW h \in [Children -> SUBSET (Children \cup {Parent})],
           NEW i \in Children
    PROVE  /\ Inherit(h, i) \in [Children -> SUBSET (Children \cup {Parent})]
           /\ \A j \in Children : j # i =>
                 /\ h[j] \subseteq Inherit(h, i)[j]
                 /\ Inherit(h, i)[j] \subseteq h[j] \cup {i}
                 /\ Inherit(h, i)[j] # {} => h[j] # {}
           /\ Inherit(h, i)[i] = {Parent}
  BY DEF Inherit

(* A new connection: the child is the youngest, it holds no end of its own. *)
LEMMA AcceptInv ==
    ASSUME ServerInv, control_connection_accept_cb
    PROVE  ServerInv'
<1> USE ServerAssumption
<1>1. /\ current_connections \in Nat
      /\ current_connections < max_connections
      /\ current_connections' = current_connections + 1
      /\ UNCHANGED <<parent, sigchld, waiting, request, answer>>
  BY DEF control_connection_accept_cb, Full, ServerInv, TypeOK
<1>2. CASE UNCHANGED <<forked, child, pipe_w, rpc_p>>
  <2>1. TypeOK' /\ Counts'
    BY <1>1, <1>2 DEF ServerInv, TypeOK, Counts
  <2> QED BY <1>1, <1>2, <2>1
          DEF ServerInv, Holders, Dialogue, ZombiesSignalled, SignalToParent,
              Live
<1>3. CASE /\ parent
           /\ forked < N
           /\ forked' = forked + 1
           /\ child' = [child EXCEPT ![forked + 1] = "running"]
           /\ pipe_w' = Inherit(pipe_w, forked + 1)
           /\ rpc_p' = Inherit(rpc_p, forked + 1)
  <2>1. forked \in Nat /\ forked + 1 \in Children /\ forked + 1 # Parent
    BY <1>3 DEF ServerInv, TypeOK, Children, Parent
  <2>2. TypeOK'
    BY <1>1, <1>3, <2>1, InheritFacts DEF ServerInv, TypeOK
  <2>3. Counts'
    BY <1>1, <1>3, <2>1 DEF ServerInv, TypeOK, Counts, Children
  <2>4. ASSUME NEW i \in Children, i # forked + 1
        PROVE  /\ rpc_p[i] \subseteq rpc_p'[i]
               /\ pipe_w'[i] \subseteq pipe_w[i] \cup {forked + 1}
               /\ pipe_w'[i] # {} => pipe_w[i] # {}
               /\ rpc_p'[i] \subseteq rpc_p[i] \cup {forked + 1}
               /\ rpc_p'[i] # {} => rpc_p[i] # {}
    <3>1. /\ pipe_w \in [Children -> SUBSET (Children \cup {Parent})]
          /\ rpc_p \in [Children -> SUBSET (Children \cup {Parent})]
      BY DEF ServerInv, TypeOK
    <3>2. /\ Inherit(rpc_p, forked + 1)[i] \subseteq rpc_p[i] \cup {forked + 1}
          /\ Inherit(rpc_p, forked + 1)[i] # {} => rpc_p[i] # {}
      BY <2>1, <2>4, <3>1, InheritFacts
    <3>3. /\ Inherit(pipe_w, forked + 1)[i] \subseteq pipe_w[i] \cup {forked + 1}
          /\ Inherit(pipe_w, forked + 1)[i] # {} => pipe_w[i] # {}
      BY <2>1, <2>4, <3>1, InheritFacts
    <3>4. rpc_p[i] \subseteq Inherit(rpc_p, forked + 1)[i]
      BY <2>1, <2>4, <3>1, InheritFacts
    <3> QED BY <1>3, <3>2, <3>3, <3>4
  <2>5. Holders'
    <3>1. \A i \in Live : i \in Live' /\ i <= forked
      BY <1>3, <2>1 DEF ServerInv, TypeOK, Counts, Live, Children
    <3>2. forked + 1 \in Live'
      BY <1>3, <2>1 DEF ServerInv, TypeOK, Live
    <3>3. ASSUME NEW i \in Children, NEW h \in pipe_w'[i] \cup rpc_p'[i]
          PROVE  /\ i <= forked'
                 /\ \/ h = Parent /\ parent'
                    \/ h \in Live' /\ h > i
      <4>1. CASE i = forked + 1
        BY <1>1, <1>3, <2>1, <3>3, <4>1, InheritFacts DEF ServerInv, TypeOK
      <4>2. CASE i # forked + 1
        <5>1. PICK g \in pipe_w[i] \cup rpc_p[i] :
                 h = g \/ h = forked + 1
          BY <2>4, <3>3, <4>2
        <5>2. \A k \in pipe_w[i] \cup rpc_p[i] :
                 i <= forked /\ ((k = Parent /\ parent) \/ (k \in Live /\ k > i))
          BY DEF ServerInv, Holders
        <5>3. i <= forked /\ ((g = Parent /\ parent) \/ (g \in Live /\ g > i))
          BY <5>1, <5>2
        <5>4. i \in Nat /\ i <= forked' /\ forked + 1 > i
          BY <1>3, <2>1, <5>3 DEF Children
        <5> QED BY <1>1, <3>1, <3>2, <5>1, <5>3, <5>4
      <4> QED BY <4>1, <4>2
    <3>4. ASSUME NEW i \in Children, i <= forked'
          PROVE  Parent \in rpc_p'[i]
      <4>1. CASE i = forked + 1
        BY <1>3, <2>1, <4>1, InheritFacts DEF ServerInv, TypeOK
      <4>2. CASE i # forked + 1
        <5>1. i <= forked
          BY <1>3, <2>1, <3>4, <4>2 DEF Children
        <5>2. Parent \in rpc_p[i]
          BY <1>3, <5>1 DEF ServerInv, Holders
        <5> QED BY <2>4, <4>2, <5>2
      <4> QED BY <4>1, <4>2
    <3> QED BY <3>3, <3>4 DEF Holders
  <2>6. Dialogue'
    BY <1>1, <1>3, <2>1 DEF ServerInv, TypeOK, Counts, Dialogue, Children
  <2>7. ZombiesSignalled' /\ SignalToParent'
    BY <1>1, <1>3, <2>1
       DEF ServerInv, TypeOK, ZombiesSignalled, SignalToParent
  <2> QED BY <2>2, <2>3, <2>5, <2>6, <2>7 DEF ServerInv
<1> QED BY <1>2, <1>3 DEF control_connection_accept_cb

(* The end of a child, for the three ways it can come about.               *)
LEMMA ExitInv ==
    ASSUME ServerInv, NEW i \in Children, child[i] = "running", Exit(i)
    PROVE  ServerInv'
<1> USE ServerAssumption
<1>1. /\ child' = [child EXCEPT ![i] = IF parent THEN "zombie" ELSE "gone"]
      /\ sigchld' = parent
      /\ pipe_w' = Release(pipe_w, i)
      /\ rpc_p' = Release(rpc_p, i)
      /\ waiting' = [waiting EXCEPT ![i] = "none"]
      /\ answer' = [answer EXCEPT ![i] = "none"]
      /\ UNCHANGED <<parent, current_connections, forked, request>>
  BY DEF Exit
<1>2. TypeOK'
  BY <1>1, ReleaseFacts DEF ServerInv, TypeOK
<1>3. Counts'
  BY <1>1 DEF ServerInv, TypeOK, Counts, Children
<1>4. Holders'
  <2>1. \A j \in Live : j # i => j \in Live'
    BY <1>1 DEF ServerInv, TypeOK, Live
  <2>2. \A j \in Children : /\ pipe_w'[j] = pipe_w[j] \ {i}
                            /\ rpc_p'[j] = rpc_p[j] \ {i}
    BY <1>1, ReleaseFacts DEF ServerInv, TypeOK
  <2>3. i # Parent
    BY DEF Children, Parent
  <2> QED BY <1>1, <2>1, <2>2, <2>3 DEF ServerInv, Holders
<1>5. Dialogue'
  BY <1>1, <1>2 DEF ServerInv, TypeOK, Dialogue
<1>6. ZombiesSignalled' /\ SignalToParent'
  <2>1. CASE parent
    BY <1>1, <2>1 DEF ZombiesSignalled, SignalToParent
  <2>2. CASE ~parent
    <3>1. \A j \in Children : child[j] # "zombie"
      BY <2>2 DEF ServerInv, ZombiesSignalled, SignalToParent
    <3>2. \A j \in Children : child'[j] # "zombie"
      BY <1>1, <2>2, <3>1 DEF ServerInv, TypeOK
    <3> QED BY <1>1, <2>2, <3>2 DEF ZombiesSignalled, SignalToParent
  <2> QED BY <2>1, <2>2
<1> QED BY <1>2, <1>3, <1>4, <1>5, <1>6 DEF ServerInv

(* The end of the parent leaves only the copies of younger children.       *)
LEMMA ParentEndsInv ==
    ASSUME ServerInv, ParentEnds
    PROVE  ServerInv'
<1> USE ServerAssumption
<1>1. TypeOK'
  BY ReleaseFacts DEF ParentEnds, ServerInv, TypeOK
<1>2. Counts'
  BY DEF ParentEnds, ServerInv, TypeOK, Counts, Children
<1>3. Holders'
  <2>1. Live' = Live
    BY DEF ParentEnds, ServerInv, TypeOK, Live
  <2>2. \A j \in Children : /\ pipe_w'[j] = pipe_w[j] \ {Parent}
                            /\ rpc_p'[j] = rpc_p[j] \ {Parent}
    BY ReleaseFacts DEF ParentEnds, ServerInv, TypeOK
  <2> QED BY <2>1, <2>2 DEF ParentEnds, ServerInv, Holders
<1>4. Dialogue' /\ ZombiesSignalled' /\ SignalToParent'
  BY DEF ParentEnds, ServerInv, TypeOK, Dialogue, ZombiesSignalled,
         SignalToParent
<1> QED BY <1>1, <1>2, <1>3, <1>4 DEF ServerInv

(* A session that spins is still there.                                    *)
LEMMA SpinInv ==
    ASSUME ServerInv, NEW i \in Children, SessionSpins(i)
    PROVE  ServerInv'
<1>1. /\ child' = [child EXCEPT ![i] = "spinning"]
      /\ child[i] = "running"
      /\ UNCHANGED <<parent, current_connections, forked, sigchld, pipe_w,
                     rpc_p, waiting, request, answer>>
  BY DEF SessionSpins
<1>2. TypeOK' /\ Counts'
  BY <1>1 DEF ServerInv, TypeOK, Counts
<1>3. Live' = Live
  BY <1>1 DEF ServerInv, TypeOK, Live
<1>4. Holders'
  BY <1>1, <1>3 DEF ServerInv, Holders
<1>5. Dialogue'
  BY <1>1 DEF ServerInv, TypeOK, Dialogue
<1>6. ZombiesSignalled' /\ SignalToParent'
  BY <1>1 DEF ServerInv, TypeOK, ZombiesSignalled, SignalToParent
<1> QED BY <1>2, <1>4, <1>5, <1>6 DEF ServerInv

(* Reaping leaves the living alone and no zombie behind.                   *)
LEMMA ReapInv ==
    ASSUME ServerInv, sigchld_handler
    PROVE  ServerInv'
<1>1. TypeOK' /\ Counts'
  BY DEF sigchld_handler, ServerInv, TypeOK, Counts
<1>2. Live' = Live
  BY DEF sigchld_handler, ServerInv, TypeOK, Live
<1>3. Holders'
  BY <1>2 DEF sigchld_handler, ServerInv, Holders
<1>4. Dialogue'
  BY DEF sigchld_handler, ServerInv, TypeOK, Dialogue
<1>5. ZombiesSignalled' /\ SignalToParent'
  BY DEF sigchld_handler, ServerInv, ZombiesSignalled, SignalToParent
<1> QED BY <1>1, <1>3, <1>4, <1>5 DEF ServerInv

(* The dialogue over the socket pair: the request, the answer and its      *)
(* arrival change nothing else.                                            *)
LEMMA AskInv ==
    ASSUME ServerInv, NEW i \in Children, NEW q \in Names,
           ask_custom_command(i, q)
    PROVE  ServerInv'
<1>1. /\ child[i] = "running"
      /\ waiting[i] = "none"
      /\ waiting' = [waiting EXCEPT ![i] = q]
      /\ request' = IF parent THEN [request EXCEPT ![i] = q] ELSE request
      /\ UNCHANGED <<parent, current_connections, forked, child, sigchld,
                     pipe_w, rpc_p, answer>>
  BY DEF ask_custom_command
<1>2. TypeOK'
  BY <1>1 DEF ServerInv, TypeOK
<1>3. Counts'
  <2>1. ~ (i > forked)
    BY <1>1 DEF ServerInv, Counts
  <2> QED BY <1>1, <2>1 DEF ServerInv, TypeOK, Counts
<1>4. Holders' /\ ZombiesSignalled' /\ SignalToParent'
  BY <1>1 DEF ServerInv, Holders, ZombiesSignalled, SignalToParent, Live
<1>5. Dialogue'
  <2>1. answer[i] = "none"
    BY <1>1 DEF ServerInv, Dialogue
  <2> QED BY <1>1, <2>1 DEF ServerInv, TypeOK, Dialogue
<1> QED BY <1>2, <1>3, <1>4, <1>5 DEF ServerInv

(* The answer takes the place of the request.                              *)
LEMMA RootCommandInv ==
    ASSUME ServerInv, NEW i \in Children, execute_root_command(i)
    PROVE  ServerInv'
<1>1. CASE ParentEnds
  BY <1>1, ParentEndsInv
<1>2. CASE /\ child[i] = "running"
           /\ request[i] # "none"
           /\ answer' = [answer EXCEPT ![i] = request[i]]
           /\ request' = [request EXCEPT ![i] = "none"]
           /\ UNCHANGED <<parent, current_connections, forked, child, sigchld,
                          pipe_w, rpc_p, waiting>>
  <2>1. TypeOK'
    BY <1>2 DEF ServerInv, TypeOK
  <2>2. Counts'
    <3>1. ~ (i > forked)
      BY <1>2 DEF ServerInv, Counts
    <3> QED BY <1>2, <3>1 DEF ServerInv, TypeOK, Counts
  <2>3. Holders' /\ ZombiesSignalled' /\ SignalToParent'
    BY <1>2 DEF ServerInv, Holders, ZombiesSignalled, SignalToParent, Live
  <2>4. Dialogue'
    BY <1>2 DEF ServerInv, TypeOK, Dialogue
  <2> QED BY <2>1, <2>2, <2>3, <2>4 DEF ServerInv
<1> QED BY <1>1, <1>2 DEF execute_root_command

(* The answer ends the wait.                                               *)
LEMMA ReplyInv ==
    ASSUME ServerInv, NEW i \in Children, ipc_reply_cb(i)
    PROVE  ServerInv'
<1>1. /\ answer[i] # "none"
      /\ waiting' = [waiting EXCEPT ![i] = "none"]
      /\ answer' = [answer EXCEPT ![i] = "none"]
      /\ UNCHANGED <<parent, current_connections, forked, child, sigchld,
                     pipe_w, rpc_p, request>>
  BY DEF ipc_reply_cb
<1>2. TypeOK' /\ Counts'
  BY <1>1 DEF ServerInv, TypeOK, Counts
<1>3. Holders' /\ ZombiesSignalled' /\ SignalToParent'
  BY <1>1 DEF ServerInv, Holders, ZombiesSignalled, SignalToParent, Live
<1>4. Dialogue'
  <2>1. request[i] = "none"
    BY <1>1 DEF ServerInv, Dialogue
  <2> QED BY <1>1, <2>1 DEF ServerInv, TypeOK, Dialogue
<1> QED BY <1>2, <1>3, <1>4 DEF ServerInv

(* Every step preserves the invariant.                                     *)
LEMMA NextInv == ServerInv /\ [Next]_vars => ServerInv'
<1> SUFFICES ASSUME ServerInv, [Next]_vars PROVE ServerInv'
  OBVIOUS
<1>1. CASE control_connection_accept_cb
  BY <1>1, AcceptInv
<1>2. CASE sigchld_handler
  BY <1>2, ReapInv
<1>3. CASE ParentDies
  BY <1>3, ParentEndsInv DEF ParentDies
<1>4. ASSUME NEW i \in Children,
             SessionEnds(i) \/ on_parent_dead(i) \/ event_cb(i)
      PROVE  ServerInv'
  BY <1>4, ExitInv DEF SessionEnds, on_parent_dead, event_cb
<1>5. ASSUME NEW i \in Children, SessionSpins(i)
      PROVE  ServerInv'
  BY <1>5, SpinInv
<1>6. ASSUME NEW i \in Children, execute_root_command(i)
      PROVE  ServerInv'
  BY <1>6, RootCommandInv
<1>7. ASSUME NEW i \in Children, ipc_reply_cb(i)
      PROVE  ServerInv'
  BY <1>7, ReplyInv
<1>8. ASSUME NEW i \in Children, NEW q \in Names, ask_custom_command(i, q)
      PROVE  ServerInv'
  BY <1>8, AskInv
<1>9. CASE UNCHANGED vars
  BY <1>9 DEF vars, ServerInv, TypeOK, Counts, Holders, Dialogue,
              ZombiesSignalled, SignalToParent, Live
<1> QED BY <1>1, <1>2, <1>3, <1>4, <1>5, <1>6, <1>7, <1>8, <1>9 DEF Next

(* The inductive invariant holds in every behaviour.                       *)
THEOREM ServerSafe == Spec => []ServerInv
  BY InitInv, NextInv, PTL DEF Spec

(* The state keeps its type: the parent never stores an answer a session   *)
(* did not ask for.                                                        *)
THEOREM ServerTyped == Spec => []TypeOK
  BY ServerSafe, PTL DEF ServerInv

(* control_connection_accept_cb admits at most max_connections sessions:   *)
(* the live ones are among those forked, each of which was counted.        *)
THEOREM AdmissionHolds == Spec => []Admission
<1>1. ServerInv => Admission
  <2> SUFFICES ASSUME ServerInv PROVE Admission
    OBVIOUS
  <2>1. /\ forked \in Nat
        /\ current_connections \in Nat
        /\ forked <= current_connections
        /\ current_connections <= max_connections
    BY ServerAssumption DEF ServerInv, TypeOK, Counts
  <2>2. Live \subseteq 1..forked
    BY <2>1, ServerAssumption DEF ServerInv, TypeOK, Counts, Live, Children
  <2>3. IsFiniteSet(1..forked) /\ Cardinality(1..forked) = forked
    BY <2>1, FS_Interval
  <2>4. /\ Cardinality(Live) <= forked
        /\ Cardinality(Live) \in Nat
    BY <2>2, <2>3, FS_Subset, FS_CardinalityType
  <2> QED BY <2>1, <2>4 DEF Admission
<1> QED BY <1>1, ServerSafe, PTL

(* The descriptors fork copies into the children never make them wait for  *)
(* one another in a cycle.                                                 *)
THEOREM KillSwitchOrdered == Spec => []KillSwitchOrder
<1>1. ServerInv => KillSwitchOrder
  BY DEF ServerInv, Holders, KillSwitchOrder, Live
<1> QED BY <1>1, ServerSafe, PTL

(* ask_custom_command returns the answer to the question it wrote.         *)
THEOREM AnswersMatch == Spec => []AnswerMatches
<1>1. ServerInv => AnswerMatches
  BY DEF ServerInv, Dialogue, AnswerMatches
<1> QED BY <1>1, ServerSafe, PTL

(* sigchld_handler misses no child, however many end before it runs.       *)
THEOREM NoForgottenZombie == Spec => []ZombiesSignalled
  BY ServerSafe, PTL DEF ServerInv

=============================================================================
