----------------------------- MODULE CommandReader -----------------------------
(***************************************************************************)
(* From the bytes of the control connection to commands: on_read of        *)
(* src/core/connection.c takes what has arrived, up to a bound, and        *)
(* parse_text_command makes one command of it.  TCP may deliver a line in  *)
(* two segments and two lines before the event loop comes round.           *)
(***************************************************************************)
EXTENDS Integers, Sequences, SequencesExt

CONSTANTS
    Commands,     \* what clients want: [command : Seq(Char), args : Seq(Seq(Char))]
    MAX_ARGS,
    MaxInput,     \* sizeof(input) - 1
    MaxLines,     \* bound: how many lines a client sends
    Habits        \* the clients and networks there are

Space  == {" ", "\n"}
Quote  == "\""
Escape == "\\"
Char   == {"a", "A", Quote, Escape} \cup Space

(* A client waits for a reply before it goes on or sends on; its lines     *)
(* arrive whole or in two segments.                                        *)
Habit == {"whole", "split", "pipeline"}

ASSUME ReaderAssumption ==
    /\ Commands \subseteq [command : Seq(Char), args : Seq(Seq(Char))]
    /\ MAX_ARGS \in Nat
    /\ MaxInput \in Nat \ {0}
    /\ MaxLines \in Nat
    /\ Habits \subseteq Habit
    \* the name of a command is a word
    /\ \A cmd \in Commands : /\ cmd.command # <<>>
                            /\ \A i \in DOMAIN cmd.command : cmd.command[i] \notin Space

VARIABLES
    habit,        \* which client and network this is
    sent,         \* the commands the client sent
    wire,         \* the segments under way
    input_buf,    \* the input buffer of the bufferevent
    pending,      \* the read callback is due
    executed,     \* the commands execute_ftp_command got
    waiting       \* the client has sent a line and nothing was executed since

vars == <<habit, sent, wire, input_buf, pending, executed, waiting>>

Parsed == [command : Seq(Char), args : Seq(Seq(Char))]

TypeOK ==
    /\ habit \in Habits
    /\ sent \in Seq(Commands) /\ Len(sent) <= MaxLines
    /\ wire \in Seq(Seq(Char))
    /\ input_buf \in Seq(Char)
    /\ pending \in BOOLEAN
    /\ executed \in Seq(Parsed)
    /\ \A i \in DOMAIN executed : Len(executed[i].args) <= MAX_ARGS
    /\ waiting \in BOOLEAN

Init ==
    /\ habit \in Habits
    /\ sent = <<>>
    /\ wire = <<>>
    /\ input_buf = <<>>
    /\ pending = FALSE
    /\ executed = <<>>
    /\ waiting = FALSE

-----------------------------------------------------------------------------
(* The client                                                              *)

(* An argument is sent as it is or, always right, in quotes.               *)
Plain(arg) == arg # <<>> /\ \A i \in DOMAIN arg : arg[i] \in {"a", "A"}

Quoted(arg) ==
    <<Quote>>
    \o FlattenSeq([i \in DOMAIN arg |->
                      IF arg[i] \in {Quote, Escape} THEN <<Escape, arg[i]>>
                      ELSE <<arg[i]>>])
    \o <<Quote>>

Line(cmd) ==
    cmd.command
    \o FlattenSeq([i \in DOMAIN cmd.args |->
                      <<" ">> \o IF Plain(cmd.args[i]) THEN cmd.args[i]
                                 ELSE Quoted(cmd.args[i])])
    \o <<"\n">>

Segments(line) ==
    IF habit = "split"
    THEN {<<SubSeq(line, 1, n), SubSeq(line, n + 1, Len(line))>> : n \in 1..(Len(line) - 1)}
    ELSE {<<line>>}

Send ==
    /\ Len(sent) < MaxLines
    /\ habit = "pipeline" \/ ~waiting
    /\ \E cmd \in Commands :
          /\ sent' = Append(sent, cmd)
          /\ \E seg \in Segments(Line(cmd)) : wire' = wire \o seg
    /\ waiting' = TRUE
    /\ UNCHANGED <<habit, input_buf, pending, executed>>

(* A segment arrives in the input buffer and makes the callback due.       *)
Deliver ==
    /\ wire # <<>>
    /\ input_buf' = input_buf \o Head(wire)
    /\ wire' = Tail(wire)
    /\ pending' = TRUE
    /\ UNCHANGED <<habit, sent, executed, waiting>>

-----------------------------------------------------------------------------
(* parse_text_command, one character at a time                             *)

toupper(c) == IF c = "a" THEN "A" ELSE c

Start == [at |-> "lead", command |-> <<>>, args |-> <<>>, arg |-> <<>>,
          in_quotes |-> FALSE, escaped |-> FALSE]

(* The argument ends.                                                      *)
EndArg(p) == [p EXCEPT !.at = "gap", !.args = Append(@, p.arg), !.arg = <<>>,
                       !.in_quotes = FALSE]

(* Mutant: the character after an escape is looked at again.               *)
NoEscape(p, c) ==
    CASE c = Quote                         -> [p EXCEPT !.at = "arg", !.in_quotes = ~@]
      [] c \in Space /\ ~p.in_quotes       -> EndArg(p)
      [] OTHER                             -> [p EXCEPT !.at = "arg", !.arg = Append(@, c)]

InArg(p, c) ==
    CASE p.escaped                         -> [p EXCEPT !.arg = Append(@, c), !.escaped = FALSE]
      [] ~p.escaped /\ c = Quote           -> [p EXCEPT !.at = "arg", !.in_quotes = ~@]
      [] ~p.escaped /\ c \in Space /\ ~p.in_quotes -> EndArg(p)
      [] ~p.escaped /\ c = Escape          -> [p EXCEPT !.at = "arg", !.escaped = TRUE]
      [] OTHER                             -> [p EXCEPT !.at = "arg", !.arg = Append(@, c)]

(* Mutant: one argument too many is taken.                                 *)
OneMore(p, c) ==
    CASE p.at \in {"lead", "gap"} /\ c \in Space -> p
      [] p.at = "cmd" /\ c \in Space             -> [p EXCEPT !.at = "gap"]
      [] p.at \in {"lead", "cmd"} /\ c \notin Space ->
            [p EXCEPT !.at = "cmd", !.command = Append(@, toupper(c))]
      [] p.at = "gap" /\ c \notin Space /\ Len(p.args) = MAX_ARGS + 1 ->
            [p EXCEPT !.at = "full"]
      [] p.at = "gap" /\ c \notin Space /\ Len(p.args) # MAX_ARGS + 1 -> InArg(p, c)
      [] p.at = "arg"                            -> InArg(p, c)
      [] p.at = "full"                           -> p

ParseChar(p, c) ==
    CASE p.at \in {"lead", "gap"} /\ c \in Space -> p
      [] p.at = "cmd" /\ c \in Space             -> [p EXCEPT !.at = "gap"]
      [] p.at \in {"lead", "cmd"} /\ c \notin Space ->
            [p EXCEPT !.at = "cmd", !.command = Append(@, toupper(c))]
      [] p.at = "gap" /\ c \notin Space /\ Len(p.args) = MAX_ARGS ->
            [p EXCEPT !.at = "full"]
      [] p.at = "gap" /\ c \notin Space /\ Len(p.args) # MAX_ARGS -> InArg(p, c)
      [] p.at = "arg"                            -> InArg(p, c)
      [] p.at = "full"                           -> p

(* At the end of the input an escape stands for itself.                    *)
EndOfInput(p) ==
    LET q == IF p.escaped THEN [p EXCEPT !.arg = Append(@, Escape)] ELSE p
    IN  IF p.at = "arg" THEN EndArg(q) ELSE q

parse_text_command(input) ==
    LET after[n \in 0..Len(input)] ==   \* the one state after n characters
            IF n = 0 THEN {Start}
            ELSE {ParseChar(p, input[n]) : p \in after[n - 1]}
        p == EndOfInput(CHOOSE p \in after[Len(input)] : TRUE)
    IN  [command |-> p.command, args |-> p.args]

(* Mutant: nothing is executed unless the line is complete.                *)
on_complete_line ==
    LET n == IF Len(input_buf) < MaxInput THEN Len(input_buf) ELSE MaxInput
    IN  /\ pending
        /\ pending' = FALSE
        /\ IF n > 0 /\ input_buf[n] = "\n"
           THEN /\ executed' = Append(executed,
                                      parse_text_command(SubSeq(input_buf, 1, n)))
                /\ input_buf' = SubSeq(input_buf, n + 1, Len(input_buf))
                /\ waiting' = FALSE
           ELSE UNCHANGED <<executed, input_buf, waiting>>
        /\ UNCHANGED <<habit, sent, wire>>

(* on_read and execute_ftp_command: what is left in the buffer waits until *)
(* more arrives.                                                           *)
on_read ==
    LET n == IF Len(input_buf) < MaxInput THEN Len(input_buf) ELSE MaxInput
    IN  /\ pending
        /\ pending' = FALSE
        /\ executed' = Append(executed, parse_text_command(SubSeq(input_buf, 1, n)))
        /\ input_buf' = SubSeq(input_buf, n + 1, Len(input_buf))
        /\ waiting' = FALSE
        /\ UNCHANGED <<habit, sent, wire>>

Next == Send \/ Deliver \/ on_read

Spec == Init /\ [][Next]_vars

(* The network delivers, and the event loop comes round.                   *)
FairSpec == Spec /\ WF_vars(Deliver) /\ WF_vars(on_read)

-----------------------------------------------------------------------------
(* Properties                                                              *)

(* What a command is to the server: its name in capitals, and as many      *)
(* arguments as it takes.                                                  *)
Meant(cmd) ==
    [command |-> [i \in DOMAIN cmd.command |-> toupper(cmd.command[i])],
     args |-> SubSeq(cmd.args, 1, IF Len(cmd.args) < MAX_ARGS THEN Len(cmd.args)
                                  ELSE MAX_ARGS)]

Fits == \A i \in DOMAIN sent : Len(Line(sent[i])) <= MaxInput

(* The commands are executed as they were meant and in their order, for a  *)
(* client that waits for each reply and whose lines arrive whole: what     *)
(* parse_text_command takes apart is what a client put in quotes.          *)
ExecutedAsSent ==
    habit = "whole" /\ Fits =>
        IsPrefix(executed, [i \in DOMAIN sent |-> Meant(sent[i])])

(* The same for every client.                                              *)
EveryLineExecuted ==
    Fits => IsPrefix(executed, [i \in DOMAIN sent |-> Meant(sent[i])])

(* For a client that waits, execute_ftp_command is called for every line,  *)
(* also for one that is longer than the buffer or arrives in pieces.  That *)
(* the command then replies is not claimed here: a RETR without a data     *)
(* connection does not (CommandAnswered of Session).                       *)
Answered == habit # "pipeline" => (waiting ~> ~waiting)

=============================================================================
