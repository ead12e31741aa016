--------------------------------- MODULE Files ---------------------------------
(***************************************************************************)
(* The commands on files and directories: DELE, MKD, RMD, CWD, PWD, SIZE,  *)
(* MDTM and the file that STOR creates, of sessions that are processes of  *)
(* their own on one file system.  Every system call is a step, so what a   *)
(* command found out may be stale when it acts.                            *)
(***************************************************************************)
EXTENDS Login, SequencesExt

CONSTANTS
    Paths,        \* the paths there may be something at
    Tree,         \* what is there at first
    LinkTo,       \* what a symbolic link names, from the root of a process
    ReadOnly,     \* directories whose entries the users may not change
    Args,         \* what clients name
    MaxCommands,  \* bound: how many commands on files there are in all
    Dots          \* a name with ".." in it

Kinds == {"none", "file", "dir", "link"}

ASSUME FilesAssumption ==
    /\ Paths \subseteq Seq(Name)
    /\ Tree \in [Paths -> Kinds]
    /\ LinkTo \in [{p \in Paths : Tree[p] = "link"} -> Seq(Name)]
    /\ Args \subseteq Seq(Name)
    /\ MaxCommands \in Nat
    /\ Dots \in Name
    /\ None \notin Name
    \* the path of a home has no link
    /\ \A u \in Users : \A i \in 1..Len(Home[u]) :
          SubSeq(Home[u], 1, i) \notin DOMAIN LinkTo
    \* no link leads through another one
    /\ \A u \in Users, l \in DOMAIN LinkTo : \A i \in 1..Len(LinkTo[l]) :
          Home[u] \o SubSeq(LinkTo[l], 1, i) \notin DOMAIN LinkTo
    \* what there is at first is a tree
    /\ \A q \in Paths : Tree[q] # "none" =>
          \A i \in 1..(Len(q) - 1) :
             SubSeq(q, 1, i) \in Paths /\ Tree[SubSeq(q, 1, i)] = "dir"

VARIABLES
    budget,       \* how many commands are left
    kind,         \* what is at each path
    op,           \* the command a session executes
    at,           \* its next system call, or "idle"
    entry,        \* the path of that call
    stack,        \* the open directories of delete_directory_recursively
    reply,        \* the code a session sent in the last step, or 0
    goal,         \* history: what the path of DELE led to when it began
    disturbed     \* history: another session changed something meanwhile

vars == <<conn, budget, kind, op, at, entry, stack, reply, goal, disturbed>>

(* A working directory that was removed: nothing is found under it.        *)
Gone == <<None>>
Path == Seq(Name \cup {None})

NoOp == [cmd |-> "none", path |-> <<>>, force |-> FALSE, recursive |-> FALSE]
Ops  == [cmd : {"none", "DELE", "MKD", "RMD", "CWD"}, path : Path,
         force : BOOLEAN, recursive : BOOLEAN]
Frame == [path : Path, old : SUBSET Name, seen : SUBSET Name]

TypeOK ==
    /\ conn \in [Sessions -> Connection]
    /\ budget \in 0..MaxCommands
    /\ kind \in [Paths -> Kinds]
    /\ op \in [Sessions -> Ops]
    /\ at \in [Sessions -> {"idle", "stat", "unlink", "mkdir", "rmdir", "chdir",
                            "opendir", "readdir", "lstat", "remove"}]
    /\ entry \in [Sessions -> Path]
    /\ stack \in [Sessions -> Seq(Frame)]
    /\ reply \in [Sessions -> {0, 213, 250, 257, 550, 553}]
    /\ goal \in [Sessions -> Path]
    /\ disturbed \in [Sessions -> BOOLEAN]

Init ==
    /\ LoginInit
    /\ budget = MaxCommands
    /\ kind = Tree
    /\ op = [s \in Sessions |-> NoOp]
    /\ at = [s \in Sessions |-> "idle"]
    /\ entry = [s \in Sessions |-> <<>>]
    /\ stack = [s \in Sessions |-> <<>>]
    /\ reply = [s \in Sessions |-> 0]
    /\ goal = [s \in Sessions |-> <<>>]
    /\ disturbed = [s \in Sessions |-> FALSE]

-----------------------------------------------------------------------------
(* The file system                                                         *)

Kind(p) == IF p \in Paths THEN kind[p] ELSE "none"

Under(p, q) == IsPrefix(p, q)

Names(p) == {n \in Name : Kind(Append(p, n)) # "none"}

(* What path p of a process leads to; its links name paths from its root.  *)
(* Nothing is under a link, so there is at most one.                       *)
Links(p) == {i \in 1..Len(p) : Kind(SubSeq(p, 1, i)) = "link"}

Resolve(s, p) ==
    LET links == Links(p)
        i == CHOOSE i \in links : TRUE
    IN  IF links = {} THEN p
        ELSE conn[s].root \o LinkTo[SubSeq(p, 1, i)] \o SubSeq(p, i + 1, Len(p))

(* The same for calls that do not follow a link at the end of the path.    *)
LResolve(s, p) ==
    IF p = <<>> THEN p ELSE Append(Resolve(s, Front(p)), Last(p))

stat(s, p) == Kind(Resolve(s, p))
lstat(s, p) == Kind(LResolve(s, p))

(* Entries may be changed in a directory of the home that is writable; the *)
(* home itself is an entry of a directory that is not.                     *)
Writable(s, q) ==
    /\ q # conn[s].root
    /\ q # <<>>
    /\ Kind(Front(q)) = "dir"
    /\ Front(q) \notin ReadOnly

CanUnlink(s, p) ==
    /\ lstat(s, p) \in {"file", "link"}
    /\ Writable(s, LResolve(s, p))

CanRmdir(s, p) ==
    /\ lstat(s, p) = "dir"
    /\ Names(LResolve(s, p)) = {}
    /\ Writable(s, LResolve(s, p))

CanCreate(s, q) == q \in Paths /\ Kind(q) = "none" /\ Writable(s, q)

(* Something else is at q: the other sessions' commands are disturbed, and *)
(* sessions that work in a directory that is removed are nowhere.          *)
Change(s, q, k) ==
    /\ kind' = [kind EXCEPT ![q] = k]
    /\ disturbed' = [t \in Sessions |-> IF t = s THEN disturbed[s] /\ at'[s] # "idle"
                                        ELSE at[t] # "idle"]
    /\ conn' = IF k = "none"
               THEN [t \in Sessions |->
                        IF conn[t].cwd = q THEN [conn[t] EXCEPT !.cwd = Gone]
                        ELSE conn[t]]
               ELSE conn

NoChange(s) ==
    /\ disturbed' = [disturbed EXCEPT ![s] = @ /\ at'[s] # "idle"]
    /\ UNCHANGED <<conn, kind>>

-----------------------------------------------------------------------------
(* Commands                                                                *)

(* execute_ftp_command: one after the other, and only after the login.     *)
Ready(s) ==
    /\ conn[s].authenticated
    /\ at[s] = "idle"
    /\ budget > 0
    /\ budget' = budget - 1

is_path_safe(a) == \A i \in 1..Len(a) : a[i] # Dots

(* A path a client names: from the root or from the working directory.     *)
Named(s) ==
    {[arg |-> a, path |-> base \o a] : a \in Args, base \in {conn[s].root, conn[s].cwd}}

Answer(s, code) ==
    /\ at' = [at EXCEPT ![s] = "idle"]
    /\ op' = [op EXCEPT ![s] = NoOp]
    /\ stack' = [stack EXCEPT ![s] = <<>>]
    /\ entry' = [entry EXCEPT ![s] = <<>>]
    /\ reply' = [t \in Sessions |-> IF t = s THEN code ELSE 0]
    /\ goal' = [goal EXCEPT ![s] = <<>>]

Silent == reply' = [t \in Sessions |-> 0]

(* Mutant: an unsafe path is a syntax error.                               *)
UnsafeSyntax(cmd) == 501

(* A path with ".." in it is refused before anything is looked at.         *)
Unsafe(cmd) == IF cmd \in {"MKD", "RMD"} THEN 553 ELSE 550

(* The command looks at a path that is safe with stat first.               *)
Begin(s, cmd, force, recursive) ==
    /\ Ready(s)
    /\ \E n \in Named(s) :
          \/ /\ ~is_path_safe(n.arg)
             /\ Answer(s, Unsafe(cmd))
             /\ NoChange(s)
          \/ /\ is_path_safe(n.arg)
             /\ op' = [op EXCEPT ![s] = [cmd |-> cmd, path |-> n.path,
                                         force |-> force, recursive |-> recursive]]
             /\ at' = [at EXCEPT ![s] = "stat"]
             /\ entry' = [entry EXCEPT ![s] = n.path]
             /\ goal' = [goal EXCEPT ![s] = Resolve(s, n.path)]
             /\ Silent
             /\ UNCHANGED <<conn, kind, stack, disturbed>>

handle_dele_command(s) == \E f, r \in BOOLEAN : Begin(s, "DELE", f, r)
cftp_mkd_authenticated_action(s) == Begin(s, "MKD", FALSE, FALSE)
cftp_rmd_authenticated_action(s) == Begin(s, "RMD", FALSE, FALSE)
cftp_cwd_authenticated_action(s) == Begin(s, "CWD", FALSE, FALSE)

Goto(s, call, p) ==
    /\ at' = [at EXCEPT ![s] = call]
    /\ entry' = [entry EXCEPT ![s] = p]
    /\ Silent
    /\ UNCHANGED <<op, goal>>

(* The end of handle_dele_command.                                         *)
Deleted(s, ok) == Answer(s, IF ok \/ op[s].force THEN 250 ELSE 550)

(* stat, and what it leads to                                              *)
DeleStat(s) ==
    LET k == stat(s, entry[s]) IN
    /\ op[s].cmd = "DELE"
    /\ \/ k = "none" /\ Deleted(s, FALSE)
       \/ k = "dir" /\ ~op[s].recursive /\ Answer(s, 550)
       \/ k = "dir" /\ op[s].recursive /\ Goto(s, "opendir", entry[s]) /\ UNCHANGED stack
       \/ k = "file" /\ Goto(s, "unlink", entry[s]) /\ UNCHANGED stack

MkdStat(s) ==
    /\ op[s].cmd = "MKD"
    /\ IF stat(s, entry[s]) = "none"
       THEN Goto(s, "mkdir", entry[s]) /\ UNCHANGED stack
       ELSE Answer(s, 550)

RmdStat(s) ==
    /\ op[s].cmd = "RMD"
    /\ IF stat(s, entry[s]) = "dir"
       THEN Goto(s, "rmdir", entry[s]) /\ UNCHANGED stack
       ELSE Answer(s, 550)

CwdStat(s) ==
    /\ op[s].cmd = "CWD"
    /\ IF stat(s, entry[s]) = "dir"
       THEN Goto(s, "chdir", entry[s]) /\ UNCHANGED stack
       ELSE Answer(s, 550)

Stat(s) ==
    /\ at[s] = "stat"
    /\ DeleStat(s) \/ MkdStat(s) \/ RmdStat(s) \/ CwdStat(s)
    /\ NoChange(s)

Unlink(s) ==
    /\ at[s] = "unlink"
    /\ IF CanUnlink(s, entry[s])
       THEN Deleted(s, TRUE) /\ Change(s, LResolve(s, entry[s]), "none")
       ELSE Deleted(s, FALSE) /\ NoChange(s)

Mkdir(s) ==
    /\ at[s] = "mkdir"
    /\ IF CanCreate(s, LResolve(s, entry[s]))
       THEN Answer(s, 257) /\ Change(s, LResolve(s, entry[s]), "dir")
       ELSE Answer(s, 550) /\ NoChange(s)

Rmd(s) ==
    /\ at[s] = "rmdir"
    /\ op[s].cmd = "RMD"
    /\ IF CanRmdir(s, entry[s])
       THEN Answer(s, 250) /\ Change(s, LResolve(s, entry[s]), "none")
       ELSE Answer(s, 550) /\ NoChange(s)

Chdir(s) ==
    /\ at[s] = "chdir"
    /\ IF stat(s, entry[s]) = "dir"
       THEN /\ Answer(s, 250)
            /\ conn' = [conn EXCEPT ![s].cwd = Resolve(s, entry[s])]
            /\ disturbed' = [disturbed EXCEPT ![s] = FALSE]
            /\ UNCHANGED kind
       ELSE Answer(s, 550) /\ NoChange(s)

-----------------------------------------------------------------------------
(* delete_directory_recursively                                            *)

(* A directory that cannot be opened ends the whole recursion.             *)
OpenDir(s) ==
    /\ at[s] = "opendir"
    /\ IF stat(s, entry[s]) = "dir"
       THEN /\ stack' = [stack EXCEPT ![s] =
                  Append(@, [path |-> entry[s], seen |-> {},
                             old |-> Names(Resolve(s, entry[s]))])]
            /\ Goto(s, "readdir", <<>>)
       ELSE Deleted(s, FALSE)
    /\ NoChange(s)

(* Mutant: the directory is not read to its end.                           *)
ReadDirHalf(s) ==
    LET top == Last(stack[s])
    IN  /\ at[s] = "readdir"
        /\ stack' = stack
        /\ Goto(s, "rmdir", top.path)
        /\ NoChange(s)

(* Every entry that was there when the directory was opened is read once;  *)
(* one that came later may be read or not.                                 *)
ReadDir(s) ==
    LET top == Last(stack[s])
    IN  /\ at[s] = "readdir"
        /\ \/ \E n \in top.old \cup (Names(Resolve(s, top.path)) \ top.seen) :
                 /\ stack' = [stack EXCEPT ![s] =
                       Append(Front(@), [top EXCEPT !.old = @ \ {n},
                                                    !.seen = @ \cup {n}])]
                 /\ Goto(s, "lstat", Append(top.path, n))
           \/ /\ top.old = {}
              /\ stack' = stack
              /\ Goto(s, "rmdir", top.path)
        /\ NoChange(s)

(* Mutant: stat instead of lstat, which follows links.                     *)
StatEntry(s) ==
    /\ at[s] = "lstat"
    /\ Goto(s, CASE stat(s, entry[s]) = "none" -> "readdir"
                 [] stat(s, entry[s]) = "dir"  -> "opendir"
                 [] OTHER                      -> "remove", entry[s])
    /\ UNCHANGED stack
    /\ NoChange(s)

(* Mutant: an entry that is gone by now is looked at again.                *)
LstatAgain(s) ==
    /\ at[s] = "lstat"
    /\ Goto(s, CASE lstat(s, entry[s]) = "none" -> "lstat"
                 [] lstat(s, entry[s]) = "dir"  -> "opendir"
                 [] OTHER                       -> "remove", entry[s])
    /\ UNCHANGED stack
    /\ NoChange(s)

Lstat(s) ==
    /\ at[s] = "lstat"
    /\ Goto(s, CASE lstat(s, entry[s]) = "none" -> "readdir"
                 [] lstat(s, entry[s]) = "dir"  -> "opendir"
                 [] OTHER                       -> "remove", entry[s])
    /\ UNCHANGED stack
    /\ NoChange(s)

(* unlink, whose failure is not looked at                                  *)
UnlinkEntry(s) ==
    /\ at[s] = "remove"
    /\ Goto(s, "readdir", <<>>)
    /\ UNCHANGED stack
    /\ IF CanUnlink(s, entry[s])
       THEN Change(s, LResolve(s, entry[s]), "none")
       ELSE NoChange(s)

(* The directory on top of the stack is done.                              *)
Return(s) ==
    IF Len(stack[s]) = 1
    THEN Deleted(s, TRUE)
    ELSE stack' = [stack EXCEPT ![s] = Front(@)] /\ Goto(s, "readdir", <<>>)

(* Mutant: a directory that cannot be removed is passed over.              *)
RmdirPassOver(s) ==
    /\ at[s] = "rmdir"
    /\ op[s].cmd = "DELE"
    /\ Return(s)
    /\ IF CanRmdir(s, entry[s])
       THEN Change(s, LResolve(s, entry[s]), "none")
       ELSE NoChange(s)

(* closedir and rmdir; when it fails all callers return at once.           *)
Rmdir(s) ==
    /\ at[s] = "rmdir"
    /\ op[s].cmd = "DELE"
    /\ IF CanRmdir(s, entry[s])
       THEN Return(s) /\ Change(s, LResolve(s, entry[s]), "none")
       ELSE Deleted(s, FALSE) /\ NoChange(s)

-----------------------------------------------------------------------------
(* Commands of one system call                                             *)

FileReply(s, p) == IF stat(s, p) \in {"none", "dir"} THEN 550 ELSE 213

cftp_size_authenticated_action(s) ==
    /\ Ready(s)
    /\ \E n \in Named(s) :
          Answer(s, IF is_path_safe(n.arg) THEN FileReply(s, n.path) ELSE 550)
    /\ NoChange(s)

(* A path with ".." is not refused; where it leads is left open.           *)
handle_mdtm_command(s) ==
    /\ Ready(s)
    /\ \E n \in Named(s) :
          \E code \in IF is_path_safe(n.arg) THEN {FileReply(s, n.path)} ELSE {213, 550} :
             Answer(s, code)
    /\ NoChange(s)

cftp_pwd_authenticated_action(s) ==
    /\ Ready(s)
    /\ Answer(s, IF conn[s].cwd = Gone THEN 550 ELSE 257)
    /\ NoChange(s)

(* The file STOR opens; the transfer is in module Session.  A path with    *)
(* ".." is not refused: it may lead anywhere under the root directory.     *)
Target(s, n) ==
    IF is_path_safe(n.arg) THEN {Resolve(s, n.path)}
    ELSE {q \in Paths : Under(conn[s].root, q)}

StorOpen(s) ==
    /\ Ready(s)
    /\ UNCHANGED <<op, at, entry, stack, goal>>
    /\ Silent
    /\ \E n \in Named(s) : \E q \in Target(s, n) :
          /\ CanCreate(s, q)
          /\ Change(s, q, "file")

-----------------------------------------------------------------------------
LoginStep(s) ==
    /\ at[s] = "idle"
    /\ cftp_user_authenticated(s) \/ cftp_pass_authenticated(s) \/ Reconnect(s)
    /\ Silent
    /\ UNCHANGED <<budget, kind, op, at, entry, stack, goal, disturbed>>

(* The system calls of a command that has begun.                           *)
Call(s) ==
    /\ \/ Stat(s)
       \/ Unlink(s)
       \/ Mkdir(s)
       \/ Rmd(s)
       \/ Chdir(s)
       \/ OpenDir(s)
       \/ ReadDir(s)
       \/ Lstat(s)
       \/ UnlinkEntry(s)
       \/ Rmdir(s)
    /\ UNCHANGED budget

Next ==
    \E s \in Sessions :
        \/ LoginStep(s)
        \/ handle_dele_command(s)
        \/ cftp_mkd_authenticated_action(s)
        \/ cftp_rmd_authenticated_action(s)
        \/ cftp_cwd_authenticated_action(s)
        \/ cftp_size_authenticated_action(s)
        \/ handle_mdtm_command(s)
        \/ cftp_pwd_authenticated_action(s)
        \/ StorOpen(s)
        \/ Call(s)

Spec == Init /\ [][Next]_vars

(* A process that executes a command goes on.                              *)
FairSpec == Spec /\ \A s \in Sessions : WF_vars(Call(s))

-----------------------------------------------------------------------------
(* Properties                                                              *)

(* A session that is logged in works in the home of its user, or in a      *)
(* directory that is gone: chdir follows chroot, and no command leads out. *)
Jailed ==
    \A s \in Sessions :
        conn[s].authenticated =>
            Under(conn[s].root, conn[s].cwd) \/ conn[s].cwd = Gone

(* What changes in the file system is in the home of a user whose session  *)
(* executes a command, and never the home itself.                          *)
OnlyOwnHome ==
    [][\A q \in Paths : kind'[q] # kind[q] =>
          \E s \in Sessions : /\ conn[s].authenticated
                             /\ Under(Home[conn[s].uid], q)
                             /\ q # Home[conn[s].uid]]_vars

(* Whatever other sessions put in the way of delete_directory_recursively, *)
(* only what is under the path that was named is removed, or under the     *)
(* directory a link there led to when the command began.                   *)
OnlyNamed ==
    [][\A q \in Paths : kind[q] # "none" /\ kind'[q] = "none" =>
          \E s \in Sessions : /\ at'[s] # at[s]
                             /\ op[s].cmd \in {"DELE", "RMD"}
                             /\ \/ Under(op[s].path, q)
                                \/ Under(goal[s], q)]_vars

Ends(s) == at[s] # "idle" /\ at'[s] = "idle"

(* Without -f, the reply 250 of DELE or RMD means that nothing is left at  *)
(* the path, however the walk went.                                        *)
HonestReply ==
    [][\A s \in Sessions :
          /\ Ends(s)
          /\ op[s].cmd \in {"DELE", "RMD"}
          /\ ~op[s].force
          /\ reply'[s] = 250
          => \A q \in Paths : Under(LResolve(s, op[s].path), q) => kind'[q] = "none"]_vars

(* DELE -r removes everything under a directory the user may change, if no *)
(* other session changes something meanwhile.                              *)
DeleteComplete ==
    [][\A s \in Sessions :
          /\ Ends(s)
          /\ op[s].cmd = "DELE" /\ op[s].recursive
          /\ ~disturbed[s]
          /\ goal[s] = LResolve(s, op[s].path) /\ goal[s] # conn[s].root
          /\ \A d \in ReadOnly : d # Front(goal[s]) /\ ~Under(goal[s], d)
          => \A q \in Paths : Under(goal[s], q) => kind'[q] = "none"]_vars

(* Every command is answered, also when another session creates and        *)
(* removes entries of a directory that is being deleted.                   *)
CommandEnds == \A s \in Sessions : at[s] # "idle" ~> at[s] = "idle"

=============================================================================
