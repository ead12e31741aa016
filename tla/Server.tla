-------------------------------- MODULE Server --------------------------------
(***************************************************************************)
(* The parent process and the sessions it forks: admission of connections, *)
(* the kill switch pipe, the RPC socket pair over which a session asks the *)
(* parent (root) for user and group names, and the reaping of children.    *)
(*                                                                         *)
(* Children are numbered in the order of their forks.  fork copies every   *)
(* descriptor the parent holds, so a child also holds the parent's ends of *)
(* the pipes and socket pairs of the children before it.  What a session   *)
(* does besides is the subject of module Session.                          *)
(***************************************************************************)
EXTENDS Naturals, FiniteSets

CONSTANTS
    N,                \* sessions forked in a behaviour (bound)
    max_connections,  \* configuration
    Env               \* what else may happen

(***************************************************************************)
(* "forkfail" fork returns -1                                              *)
(* "spin"     a session loops for ever on a failing write (on_stor_read)   *)
(* "kill"     a session is killed by a signal while it waits for the parent*)
(***************************************************************************)
ASSUME ServerAssumption == /\ N \in Nat
                           /\ max_connections \in Nat
                           /\ Env \subseteq {"forkfail", "spin", "kill"}

Children == 1..N
Parent == 0          \* the parent, as a holder of descriptors
Names == {"UID", "GID"}

VARIABLES
    parent,               \* the parent process is alive
    current_connections,  \* g_server_state.current_connections of the parent
    forked,               \* number of children forked so far
    child,                \* state of each child process
    sigchld,              \* a SIGCHLD is pending in the parent
    pipe_w,               \* who holds the write end of each kill switch pipe
    rpc_p,                \* who holds the parent's end of each socket pair
    waiting,              \* what a child blocked in ask_custom_command asked for
    request,              \* request in the socket pair, towards the parent
    answer                \* answer in the socket pair, towards the child

vars == <<parent, current_connections, forked, child, sigchld, pipe_w, rpc_p,
          waiting, request, answer>>

TypeOK ==
    /\ parent \in BOOLEAN
    /\ current_connections \in Nat
    /\ forked \in 0..N
    /\ child \in [Children -> {"none", "running", "spinning", "zombie", "gone"}]
    /\ sigchld \in BOOLEAN
    /\ pipe_w \in [Children -> SUBSET (Children \cup {Parent})]
    /\ rpc_p \in [Children -> SUBSET (Children \cup {Parent})]
    /\ waiting \in [Children -> Names \cup {"none"}]
    /\ request \in [Children -> Names \cup {"none"}]
    /\ answer \in [Children -> Names \cup {"none"}]

Live == {i \in Children : child[i] \in {"running", "spinning"}}

(* init_server_state *)
Init ==
    /\ parent = TRUE
    /\ current_connections = 0
    /\ forked = 0
    /\ child = [i \in Children |-> "none"]
    /\ sigchld = FALSE
    /\ pipe_w = [i \in Children |-> {}]
    /\ rpc_p = [i \in Children |-> {}]
    /\ waiting = [i \in Children |-> "none"]
    /\ request = [i \in Children |-> "none"]
    /\ answer = [i \in Children |-> "none"]

-----------------------------------------------------------------------------
(* Mutant: the child keeps its own copy of the parent's end.               *)
InheritOwn(h, i) ==
    [j \in Children |->
        IF j = i THEN {Parent, i}
        ELSE IF Parent \in h[j] THEN h[j] \cup {i} ELSE h[j]]

(* The descriptors after the fork of child i, for the parent's ends h of   *)
(* the pipes or of the socket pairs: the new one stays open in the parent, *)
(* child i closes its copy of it and keeps those of the earlier children.  *)
Inherit(h, i) ==
    [j \in Children |->
        IF j = i THEN {Parent}
        ELSE IF Parent \in h[j] THEN h[j] \cup {i} ELSE h[j]]

(* A process that ends closes all its descriptors.                         *)
Release(h, p) == [j \in Children |-> h[j] \ {p}]

(* Mutant: one connection too many.                                        *)
FullOffByOne == current_connections > max_connections

(* The limit a new connection is held against.                             *)
Full == current_connections >= max_connections

(* control_connection_accept_cb: a connection beyond max_connections, and  *)
(* one for which no socket pair can be made, is closed and changes nothing.*)
(* register_interprocess_fd_on_server counts the connection, whether fork  *)
(* succeeded or not.                                                       *)
control_connection_accept_cb ==
    /\ parent
    /\ ~Full
    /\ current_connections' = current_connections + 1
    /\ \/ /\ forked < N
          /\ forked' = forked + 1
          /\ child' = [child EXCEPT ![forked + 1] = "running"]
          /\ pipe_w' = Inherit(pipe_w, forked + 1)
          /\ rpc_p' = Inherit(rpc_p, forked + 1)
       \/ /\ "forkfail" \in Env
          /\ UNCHANGED <<forked, child, pipe_w, rpc_p>>
    /\ UNCHANGED <<parent, sigchld, waiting, request, answer>>

(* The end of child i: the kernel closes its descriptors, drops what is    *)
(* buffered towards it, and signals the parent.                            *)
Exit(i) ==
    /\ child' = [child EXCEPT ![i] = IF parent THEN "zombie" ELSE "gone"]
    /\ sigchld' = parent
    /\ pipe_w' = Release(pipe_w, i)
    /\ rpc_p' = Release(rpc_p, i)
    /\ waiting' = [waiting EXCEPT ![i] = "none"]
    /\ answer' = [answer EXCEPT ![i] = "none"]
    /\ UNCHANGED <<parent, current_connections, forked, request>>

(* A session ends.  While it waits for the parent its event loop does not  *)
(* run: only a signal can end it then.                                     *)
SessionEnds(i) ==
    /\ child[i] = "running"
    /\ waiting[i] = "none" \/ "kill" \in Env
    /\ Exit(i)

(* A session never returns to its event loop.                              *)
SessionSpins(i) ==
    /\ "spin" \in Env
    /\ child[i] = "running"
    /\ waiting[i] = "none"
    /\ child' = [child EXCEPT ![i] = "spinning"]
    /\ UNCHANGED <<parent, current_connections, forked, sigchld, pipe_w, rpc_p,
                   waiting, request, answer>>

(* Mutant: one waitpid for each signal delivered.                          *)
reap_one ==
    /\ parent
    /\ sigchld
    /\ sigchld' = FALSE
    /\ \E i \in Children : /\ child[i] = "zombie"
                           /\ child' = [child EXCEPT ![i] = "gone"]
    /\ UNCHANGED <<parent, current_connections, forked, pipe_w, rpc_p, waiting,
                   request, answer>>

(* sigchld_handler reaps every child that has ended.                       *)
sigchld_handler ==
    /\ parent
    /\ sigchld
    /\ sigchld' = FALSE
    /\ child' = [i \in Children |-> IF child[i] = "zombie" THEN "gone"
                                                           ELSE child[i]]
    /\ UNCHANGED <<parent, current_connections, forked, pipe_w, rpc_p, waiting,
                   request, answer>>

(* The parent is killed or crashes; its zombies go to init.                *)
ParentEnds ==
    /\ parent' = FALSE
    /\ sigchld' = FALSE
    /\ child' = [i \in Children |-> IF child[i] = "zombie" THEN "gone"
                                                           ELSE child[i]]
    /\ pipe_w' = Release(pipe_w, Parent)
    /\ rpc_p' = Release(rpc_p, Parent)
    /\ request' = [i \in Children |-> "none"]
    /\ UNCHANGED <<current_connections, forked, waiting, answer>>

ParentDies == parent /\ ParentEnds

(* on_parent_dead: the end of file of the pipe, seen by the event loop.    *)
on_parent_dead(i) ==
    /\ child[i] = "running"
    /\ waiting[i] = "none"
    /\ pipe_w[i] = {}
    /\ Exit(i)

-----------------------------------------------------------------------------
(* ask_custom_command: the request is written and a nested event loop, on  *)
(* the socket pair alone, waits for the answer without a timeout.          *)
ask_custom_command(i, q) ==
    /\ child[i] = "running"
    /\ waiting[i] = "none"
    /\ waiting' = [waiting EXCEPT ![i] = q]
    /\ request' = IF parent THEN [request EXCEPT ![i] = q] ELSE request
    /\ UNCHANGED <<parent, current_connections, forked, child, sigchld, pipe_w,
                   rpc_p, answer>>

(* execute_root_command answers the request.  Nothing ignores SIGPIPE: an  *)
(* answer to a session that is gone ends the parent.                       *)
execute_root_command(i) ==
    /\ parent
    /\ request[i] # "none"
    /\ \/ /\ child[i] = "running"
          /\ answer' = [answer EXCEPT ![i] = request[i]]
          /\ request' = [request EXCEPT ![i] = "none"]
          /\ UNCHANGED <<parent, current_connections, forked, child, sigchld,
                         pipe_w, rpc_p, waiting>>
       \/ /\ child[i] # "running"
          /\ ParentEnds

(* Mutant: the answer is looked at but not taken from the buffer.          *)
ipc_reply_left(i) ==
    /\ child[i] = "running"
    /\ waiting[i] # "none"
    /\ answer[i] # "none"
    /\ waiting' = [waiting EXCEPT ![i] = "none"]
    /\ UNCHANGED <<parent, current_connections, forked, child, sigchld, pipe_w,
                   rpc_p, request, answer>>

(* ipc_reply_cb ends the nested loop.                                      *)
ipc_reply_cb(i) ==
    /\ child[i] = "running"
    /\ waiting[i] # "none"
    /\ answer[i] # "none"
    /\ waiting' = [waiting EXCEPT ![i] = "none"]
    /\ answer' = [answer EXCEPT ![i] = "none"]
    /\ UNCHANGED <<parent, current_connections, forked, child, sigchld, pipe_w,
                   rpc_p, request>>

(* Mutant: the callback has no context in the child either.                *)
event_cb_ignored(i) == FALSE

(* event_cb in a child: the end of the socket pair ends a session that is  *)
(* waiting.  In the parent its ctx is NULL and it does nothing: neither    *)
(* the bufferevent nor the count of connections changes when a child ends. *)
event_cb(i) ==
    /\ child[i] = "running"
    /\ waiting[i] # "none"
    /\ answer[i] = "none"
    /\ rpc_p[i] = {}
    /\ Exit(i)

-----------------------------------------------------------------------------
Next ==
    \/ control_connection_accept_cb
    \/ sigchld_handler
    \/ ParentDies
    \/ \E i \in Children : \/ SessionEnds(i)
                           \/ SessionSpins(i)
                           \/ on_parent_dead(i)
                           \/ execute_root_command(i)
                           \/ ipc_reply_cb(i)
                           \/ event_cb(i)
                           \/ \E q \in Names : ask_custom_command(i, q)

Spec == Init /\ [][Next]_vars

(* The kernel delivers signals, the event loops what is ready.  Clients    *)
(* owe nothing: no session need ever be opened or end by itself.           *)
Fairness ==
    /\ WF_vars(sigchld_handler)
    /\ \A i \in Children : /\ WF_vars(on_parent_dead(i))
                           /\ WF_vars(execute_root_command(i))
                           /\ WF_vars(ipc_reply_cb(i))
                           /\ WF_vars(event_cb(i))

FairSpec == Spec /\ Fairness

-----------------------------------------------------------------------------
(* Safety                                                                  *)

(* No more than max_connections sessions exist at once, whatever is forked,*)
(* fails to fork, ends or is reaped.                                       *)
Admission == Cardinality(Live) <= current_connections
             /\ current_connections <= max_connections

(* The descriptor a child waits on to learn of the parent's end is held by *)
(* nobody but the parent and live younger children: no child waits for     *)
(* itself or in a cycle, so the sessions end from the youngest on.         *)
KillSwitchOrder ==
    \A i \in Live : \A h \in pipe_w[i] \cup rpc_p[i] :
        \/ h = Parent /\ parent
        \/ h \in Live /\ h > i

(* A session reads the answer to the question it asks, never to an older   *)
(* one.                                                                    *)
AnswerMatches ==
    \A i \in Children : answer[i] # "none" => answer[i] = waiting[i]

(* A process that has ended is known to the parent or its signal pends:    *)
(* no zombie is forgotten when several children end before the handler.    *)
ZombiesSignalled == (\E i \in Children : child[i] = "zombie") => sigchld

(* The inductive invariant behind them.                                    *)

(* Every fork was counted, and children are forked in order.               *)
Counts ==
    /\ forked <= current_connections
    /\ current_connections <= max_connections
    /\ \A i \in Children : i > forked =>
          /\ child[i] = "none"
          /\ waiting[i] = "none"
          /\ request[i] = "none"
          /\ answer[i] = "none"

(* The holders of the parent's ends, those of ended children included.     *)
Holders ==
    \A i \in Children :
        /\ \A h \in pipe_w[i] \cup rpc_p[i] :
              /\ i <= forked
              /\ \/ h = Parent /\ parent
                 \/ h \in Live /\ h > i
        /\ parent /\ i <= forked => Parent \in rpc_p[i]

(* One question at a time, and its answer once it is no longer under way.  *)
Dialogue ==
    \A i \in Children :
        /\ answer[i] # "none" => answer[i] = waiting[i] /\ request[i] = "none"
        /\ request[i] # "none" => /\ parent
                                  /\ child[i] = "running"
                                        => request[i] = waiting[i]

(* Signals are for a living parent.                                        *)
SignalToParent == sigchld => parent

ServerInv ==
    /\ TypeOK
    /\ Counts
    /\ Holders
    /\ Dialogue
    /\ ZombiesSignalled
    /\ SignalToParent

-----------------------------------------------------------------------------
(* Liveness and the documented meaning of the counter                      *)

(* A session that spins never runs its event loop again; what it inherited *)
(* stays open, so it can hold up the older ones.                           *)
HeldUp(i) == \E j \in Live : j >= i /\ child[j] = "spinning"

(* If the parent dies, every session ends, unless it or a younger one      *)
(* spins: a spinning session holds up no younger one.                      *)
KillSwitch == ~parent ~> \A i \in Live : HeldUp(i)

(* A session that asks the parent gets on, or ends with the parent, again  *)
(* unless one that spins holds it up.                                      *)
AskReturns ==
    \A i \in Children : waiting[i] # "none" ~> waiting[i] = "none" \/ HeldUp(i)

(* current_connections is the number of active connections, once ended     *)
(* sessions are reaped.                                                    *)
CounterIsActive ==
    parent /\ ~sigchld => current_connections = Cardinality(Live)

=============================================================================
