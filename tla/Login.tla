--------------------------------- MODULE Login ---------------------------------
(***************************************************************************)
(* Login and confinement: USER and PASS of several sessions, each a        *)
(* process of its own that starts as the superuser at the root of the file *)
(* system.  authenticate_and_switch_user changes the process in several    *)
(* system calls; the ones before a call that fails keep their effect.      *)
(* A path is the sequence of the names on it.                              *)
(***************************************************************************)
EXTENDS Integers, Sequences

CONSTANTS
    Sessions,
    Users,        \* names in the user database a client may log in with
    Superuser,    \* a name that begins with "root"
    Name,         \* names on paths
    Home,         \* Home[u]: the home directory of u
    None          \* no name, no user

ASSUME LoginAssumption ==
    /\ Superuser \notin Users
    /\ None \notin Users \cup {Superuser}
    /\ Home \in [Users -> Seq(Name)]
    /\ \A u \in Users : Home[u] # <<>>

VARIABLE
    conn          \* the connection_t of each session, and its process:
                  \* root and working directory, user and group

Connection ==
    [username      : Users \cup {None},
     authenticated : BOOLEAN,
     root          : Seq(Name),
     cwd           : Seq(Name \cup {None}),
     gid           : Users \cup {Superuser},
     uid           : Users \cup {Superuser}]

(* A session that was just forked.                                         *)
Fresh == [username |-> None, authenticated |-> FALSE, root |-> <<>>,
          cwd |-> <<>>, gid |-> Superuser, uid |-> Superuser]

LoginInit == conn = [s \in Sessions |-> Fresh]

-----------------------------------------------------------------------------
(* getpwnam and getspnam read the user database under the root directory   *)
(* of the process.  There is none in a home directory.                     *)
getpwnam(c, name) == name \in Users \cup {Superuser} /\ c.root = <<>>

(* The user stays the one of an earlier USER if the name is refused.       *)
user_exists(c, name) ==
    IF name # Superuser /\ getpwnam(c, name)
    THEN [c EXCEPT !.username = name]
    ELSE c

(* USER before the login; after it cftp_authenticated changes nothing.     *)
cftp_user_authenticated(s) ==
    /\ ~conn[s].authenticated
    /\ \E name \in Users \cup {Superuser, None} :
          conn' = [conn EXCEPT ![s] = user_exists(conn[s], name)]

(* Mutant: the root directory stays.                                       *)
NoChroot(c) == c

chroot(c) == [c EXCEPT !.root = Home[c.username]]
chdir(c)  == [c EXCEPT !.cwd = c.root]
setgid(c) == [c EXCEPT !.gid = c.username]
setuid(c) == [c EXCEPT !.uid = c.username]

(* The outcomes of authenticate_and_switch_user: a wrong password, or      *)
(* chroot, chdir, setgid or setuid fails, or none of them.                 *)
Failed(c) ==
    IF ~getpwnam(c, c.username) THEN {c}
    ELSE {c, chroot(c), chdir(chroot(c)), setgid(chdir(chroot(c)))}

(* Mutants: the login goes on when setgid fails; chdir is left out.        *)
SucceededAnyway(c) ==
    IF ~getpwnam(c, c.username) THEN {}
    ELSE {[setuid(d) EXCEPT !.authenticated = TRUE] :
             d \in {chdir(chroot(c)), setgid(chdir(chroot(c)))}}

SucceededNoChdir(c) ==
    IF ~getpwnam(c, c.username) THEN {}
    ELSE {[setuid(setgid(chroot(c))) EXCEPT !.authenticated = TRUE]}

Succeeded(c) ==
    IF ~getpwnam(c, c.username) THEN {}
    ELSE {[setuid(setgid(chdir(chroot(c)))) EXCEPT !.authenticated = TRUE]}

authenticate_and_switch_user(c) == Failed(c) \cup Succeeded(c)

(* PASS before the login.                                                  *)
cftp_pass_authenticated(s) ==
    /\ ~conn[s].authenticated
    /\ \E c \in authenticate_and_switch_user(conn[s]) :
          conn' = [conn EXCEPT ![s] = c]

(* The session ends and another one takes its place.                       *)
Reconnect(s) == conn' = [conn EXCEPT ![s] = Fresh]

-----------------------------------------------------------------------------
(* Properties                                                              *)

(* A session that is logged in is the user it says, in user, group and     *)
(* root directory, whatever failed in the logins before: a login that      *)
(* failed half way does not count for another.                             *)
LoginComplete ==
    \A s \in Sessions :
        conn[s].authenticated =>
            /\ conn[s].username \in Users
            /\ conn[s].uid = conn[s].username
            /\ conn[s].gid = conn[s].username
            /\ conn[s].root = Home[conn[s].username]

=============================================================================
