----------------------------- MODULE PassivePorts -----------------------------
(***************************************************************************)
(* The search for a passive port: data_connection_listener_config of       *)
(* several sessions, each a process of its own, on the range of ports the  *)
(* server was configured with.  One turn of the loop, which tries to bind  *)
(* and listen on one port, is one step.                                    *)
(***************************************************************************)
EXTENDS Config, FiniteSets

CONSTANTS
    Sessions,
    Taken,       \* ports other programs listen on
    Ephemeral,   \* ports the kernel chooses from for port 0
    None

ASSUME PortsAssumption == /\ IsFiniteSet(Sessions)
                          /\ Taken \subseteq 1..UINT16_MAX
                          /\ Ephemeral \subseteq 1..UINT16_MAX
                          /\ Cardinality(Ephemeral \ Taken)
                                >= Cardinality(Sessions)
                          /\ None \notin Int

VARIABLES
    pasv_port,   \* the counter of the loop, 16 bits; None outside of it
    listener,    \* the port each session listens on
    told         \* the port its reply to PASV or EPSV names

portVars == <<pasv_port, listener, told>>
vars == <<configVars, portVars>>

Ports == 0..UINT16_MAX

TypeOK ==
    /\ ConfigTypeOK
    /\ pasv_port \in [Sessions -> Ports \cup {None}]
    /\ listener \in [Sessions -> Ports \cup {None}]
    /\ told \in [Sessions -> Ports \cup {None}]

NoListeners ==
    /\ pasv_port' = [s \in Sessions |-> None]
    /\ listener' = [s \in Sessions |-> None]
    /\ told' = [s \in Sessions |-> None]

Init ==
    /\ ConfigInit
    /\ pasv_port = [s \in Sessions |-> None]
    /\ listener = [s \in Sessions |-> None]
    /\ told = [s \in Sessions |-> None]

-----------------------------------------------------------------------------
InUse(p) == p \in Taken \/ \E s \in Sessions : listener[s] = p

(* PASV or EPSV: the old listener is closed and the loop begins.  Without  *)
(* an address of the control connection the command is refused.            *)
data_connection_listener_config(s) ==
    /\ pc = "serving"
    /\ pasv_port[s] = None
    /\ listener' = [listener EXCEPT ![s] = None]
    /\ told' = [told EXCEPT ![s] = None]
    /\ \/ pasv_port' = [pasv_port EXCEPT ![s] = pasv_range.start]
       \/ UNCHANGED pasv_port

(* Mutant: the reply tells the port after the one that was bound.          *)
BindTellsNext(s) ==
    /\ pasv_port[s] \in pasv_range.start..pasv_range.end
    /\ ~InUse(pasv_port[s])
    /\ listener' = [listener EXCEPT ![s] = pasv_port[s]]
    /\ told' = [told EXCEPT ![s] = (pasv_port[s] + 1) % 65536]
    /\ pasv_port' = [pasv_port EXCEPT ![s] = None]

(* The port is free: the listener is there and the reply tells the port.   *)
Bind(s) ==
    /\ pasv_port[s] \in pasv_range.start..pasv_range.end
    /\ ~InUse(pasv_port[s])
    /\ listener' = [listener EXCEPT ![s] = pasv_port[s]]
    /\ told' = [told EXCEPT ![s] = pasv_port[s]]
    /\ pasv_port' = [pasv_port EXCEPT ![s] = None]

(* The counter went from 65535 to 0, which is below every end: the kernel  *)
(* chooses a port, and the reply tells port 0.                             *)
BindZero(s) ==
    /\ pasv_port[s] = 0
    /\ \E p \in Ephemeral : /\ ~InUse(p)
                            /\ listener' = [listener EXCEPT ![s] = p]
    /\ told' = [told EXCEPT ![s] = 0]
    /\ pasv_port' = [pasv_port EXCEPT ![s] = None]

(* Mutants: the port after the next is tried; the same port is tried       *)
(* again.                                                                  *)
SkipPort(s) ==
    /\ pasv_port[s] \in pasv_range.start..pasv_range.end
    /\ InUse(pasv_port[s])
    /\ pasv_port' = [pasv_port EXCEPT ![s] = (pasv_port[s] + 2) % 65536]
    /\ UNCHANGED <<listener, told>>

SamePort(s) ==
    /\ pasv_port[s] \in pasv_range.start..pasv_range.end
    /\ InUse(pasv_port[s])
    /\ UNCHANGED portVars

(* The port is in use.                                                     *)
NextPort(s) ==
    /\ pasv_port[s] \in pasv_range.start..pasv_range.end
    /\ InUse(pasv_port[s])
    /\ pasv_port' = [pasv_port EXCEPT ![s] = (pasv_port[s] + 1) % 65536]
    /\ UNCHANGED <<listener, told>>

(* No port of the range was free: the command is refused.                  *)
Refuse(s) ==
    /\ pasv_port[s] # None
    /\ pasv_port[s] > pasv_range.end
    /\ pasv_port' = [pasv_port EXCEPT ![s] = None]
    /\ UNCHANGED <<listener, told>>

TryPort(s) == Bind(s) \/ BindZero(s) \/ NextPort(s) \/ Refuse(s)

(* data_connection_accept_cb, kill_listener_on_timeout and the end of the  *)
(* session close the listener; its port can be bound again at once.        *)
CloseListener(s) ==
    /\ listener[s] # None
    /\ listener' = [listener EXCEPT ![s] = None]
    /\ told' = [told EXCEPT ![s] = None]
    /\ UNCHANGED pasv_port

-----------------------------------------------------------------------------
SessionNext(s) ==
    data_connection_listener_config(s) \/ TryPort(s) \/ CloseListener(s)

(* The sessions end with the server, see module Server.                    *)
Next ==
    \/ ConfigNext /\ UNCHANGED portVars
    \/ Crash /\ NoListeners
    \/ \E s \in Sessions : SessionNext(s) /\ UNCHANGED configVars

Spec == Init /\ [][Next]_vars

(* A session goes on with its loop.                                        *)
FairSpec ==
    /\ Spec
    /\ \A s \in Sessions : WF_vars(TryPort(s) /\ UNCHANGED configVars)

-----------------------------------------------------------------------------
(* Properties                                                              *)

Free == (pasv_range.start..pasv_range.end) \ Taken

(* There is a port in the range for every session.                         *)
Room == Cardinality(Free) >= Cardinality(Sessions)

(* The loop looks at one port after the other while sessions release and   *)
(* take them.  Still, if there are as many ports as sessions it never runs *)
(* past the range: no PASV is refused for want of a port, and the counter  *)
(* of 16 bits does not overflow.                                           *)
NeverRefused ==
    pc = "serving" /\ Room =>
        \A s \in Sessions :
            pasv_port[s] # None =>
                pasv_port[s] \in pasv_range.start..pasv_range.end

(* A client is told the port its listener has, and it is one of the range, *)
(* unless the range ends at 65535 and is too small for the sessions.       *)
ToldIsListening ==
    Room \/ pasv_range.end < 65535 =>
        \A s \in Sessions :
            /\ told[s] = listener[s]
            /\ listener[s] # None =>
                  listener[s] \in pasv_range.start..pasv_range.end

(* Every PASV ends, with a port or refused.                                *)
SearchEnds ==
    \A s \in Sessions : pasv_port[s] # None ~> pasv_port[s] = None

-----------------------------------------------------------------------------
(* The inductive invariant behind NeverRefused                             *)

(* The port a session holds or is about to try.                            *)
Position(s) == IF listener[s] # None THEN listener[s] ELSE pasv_port[s]

(* The sessions that are at port p or beyond.                              *)
Beyond(p) ==
    {s \in Sessions : Position(s) # None /\ Position(s) >= p}

(* The ports before p that no other program has.                           *)
Below(p) == (pasv_range.start..(p - 1)) \ Taken

(* A session gets beyond a port only when another one has it: the further  *)
(* on, the fewer sessions.                                                 *)
Thinning ==
    \A p \in pasv_range.start..pasv_range.end :
        Beyond(p) # {} =>
            Cardinality(Beyond(p)) + Cardinality(Below(p)) <= Cardinality(Sessions)

(* Sessions search or listen in a running server only, and not both; only  *)
(* the port of a listener is told.                                         *)
Quiet ==
    /\ pc # "serving" => \A s \in Sessions : Position(s) = None
    /\ \A s \in Sessions : listener[s] = None \/ pasv_port[s] = None
    /\ \A s \in Sessions : listener[s] = None => told[s] = None

(* The counter stays a number in a range that ends before 65535.           *)
Bounded ==
    pc = "serving" /\ pasv_range.end < 65535 =>
        \A s \in Sessions :
            pasv_port[s] # None =>
                pasv_port[s] \in pasv_range.start..(pasv_range.end + 1)

=============================================================================
