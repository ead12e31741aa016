------------------------------- MODULE Session -------------------------------
(***************************************************************************)
(* One FTP session: the child process that control_connection_accept_cb    *)
(* forks for a client.  A single libevent loop runs every callback, so an  *)
(* action is one callback, run to its end; what interleaves is the order   *)
(* in which libevent finds the control connection, the passive listener,   *)
(* the data connections and the timers ready, and the deferred callbacks   *)
(* it then runs.                                                           *)
(*                                                                         *)
(* A pointer of connection_t is the model value Nil or the name of what it *)
(* points to; a callback pointer is the name of the function or "NULL".    *)
(* Objects keep a state of their own, so that a freed or a forgotten one   *)
(* can be told from a live one.  Allocation failures are not modelled.     *)
(***************************************************************************)
EXTENDS Naturals

CONSTANTS
    Bevs,    \* data bufferevents alive at once (bound)
    Timers,  \* timer events alive at once (bound)
    Nil,     \* the null pointer
    Env      \* what the client, the network and the disk may do

(***************************************************************************)
(* "tls"      the client asks for AUTH TLS and PROT P                      *)
(* "pipeline" it sends a command before the answer to the previous one     *)
(* "eager"    it ends the TLS handshake of a data connection before it has *)
(*            the 150 reply of the transfer                                *)
(* "early"    upload data arrives before the STOR command                  *)
(* "multi"    it opens a data connection while another one is open         *)
(* "neterr"   a data connection ends or fails at any moment                *)
(* "abort"    it sends ABOR at any moment                                  *)
(* "empty"    it downloads empty files                                     *)
(* "io"       a file or directory cannot be opened, or a read fails        *)
(* "diskfull" a write to the uploaded file fails                           *)
(* "dirgone"  a listed directory disappears between the two opendir calls  *)
(***************************************************************************)
Behaviours == {"tls", "pipeline", "eager", "early", "multi", "neterr",
               "abort", "empty", "io", "diskfull", "dirgone"}

ASSUME SessionAssumption == /\ Nil \notin Bevs
                            /\ Nil \notin Timers
                            /\ Env \subseteq Behaviours
                            /\ Timers # {}

VARIABLES
    proc,              \* the process: "running", "exited", "crashed", "spinning"
    authenticated,     \* connection->authenticated
    ctl,               \* the control bufferevent, see CtlType
    control_write_cb,  \* connection->control_write_cb
    timers,            \* the timer events
    timeout_event,     \* connection->timeout_event
    pasv_listener,     \* connection->pasv_listener, named by the timer started with it
    data_tls_required, \* connection->data_tls_required
    data,              \* the data_* and upload_fd fields, see DataType
    bevs,              \* the data bufferevents, see BevType
    reply              \* history: what the client's last command got so far

vars == <<proc, authenticated, ctl, control_write_cb, timers, timeout_event,
          pasv_listener, data_tls_required, data, bevs, reply>>

-----------------------------------------------------------------------------
CtlType ==
    [tls     : {"plain", "handshake", "open"},
     out     : BOOLEAN,   \* replies not yet handed to the kernel
     drained : BOOLEAN]   \* the deferred on_write is due

DataType ==
    [bev       : Bevs \cup {Nil},
     active    : BOOLEAN,   \* data_active # 0
     read_cb   : {"NULL", "on_stor_read"},
     write_cb  : {"NULL", "close_on_listcb", "send_next_chunk",
                  "download_completion_on_plain_connection_cb",
                  "close_on_retrcb"},
     tls_cb    : {"NULL", "list", "stor", "close_data_connection_on_writecb"},
     eof_cb    : {"NULL", "on_eof_event_cb"},
     upload_fd : {"-1", "0", "file"},    \* calloc leaves 0 before the first close
     stream    : {"NULL", "open", "closed"}]  \* data_stream and its file

BevType ==
    [open      : BOOLEAN,
     tls       : BOOLEAN,
     connected : BOOLEAN,   \* usable at once, or after the TLS handshake
     eof       : BOOLEAN,   \* its end was reported: it is not reported again
     in        : BOOLEAN,   \* input not yet read by a callback
     out       : {"empty", "low", "high"},  \* low: at most the 128 KB watermark
     low       : BOOLEAN,   \* the 128 KB write watermark is set
     kick      : BOOLEAN,   \* the first writable event is still to come
     wr        : BOOLEAN,   \* the deferred write callback is due
     acks      : 0..2,      \* history: final 226 replies for it (2: several)
     lost      : {"nothing", "listing", "tls_download", "file"}]
                            \* history: confirmed, and freed with data left

ClosedBev ==
    [open |-> FALSE, tls |-> FALSE, connected |-> FALSE, eof |-> FALSE,
     in |-> FALSE, out |-> "empty", low |-> FALSE, kick |-> FALSE, wr |-> FALSE,
     acks |-> 0, lost |-> "nothing"]

(* The only type invariant.                                                *)
TypeOK ==
    /\ proc \in {"running", "exited", "crashed", "spinning"}
    /\ authenticated \in BOOLEAN
    /\ ctl \in CtlType
    /\ control_write_cb \in {"NULL", "disable_connection_cb",
                             "close_data_connection_on_writecb"}
    /\ timers \in [Timers -> {"free", "auth", "listen", "expired"}]
    /\ timeout_event \in Timers
    /\ pasv_listener \in Timers \cup {Nil}
    /\ data_tls_required \in BOOLEAN
    /\ data \in DataType
    /\ bevs \in [Bevs -> BevType]
    /\ reply \in {"done", "prelim", "dropped"}

-----------------------------------------------------------------------------
(* start_control_connection_loop: the 220 greeting is queued and the       *)
(* authentication timer runs; connection_t comes from calloc.              *)
Init ==
    /\ proc = "running"
    /\ authenticated = FALSE
    /\ ctl = [tls |-> "plain", out |-> TRUE, drained |-> FALSE]
    /\ control_write_cb = "NULL"
    /\ timeout_event \in Timers
    /\ timers = [t \in Timers |-> IF t = timeout_event THEN "auth" ELSE "free"]
    /\ pasv_listener = Nil
    /\ data_tls_required = FALSE
    /\ data = [bev |-> Nil, active |-> FALSE, read_cb |-> "NULL",
               write_cb |-> "NULL", tls_cb |-> "NULL", eof_cb |-> "NULL",
               upload_fd |-> "0", stream |-> "NULL"]
    /\ bevs = [b \in Bevs |-> ClosedBev]
    /\ reply = "done"

-----------------------------------------------------------------------------
(* Helpers shared by the handlers                                          *)

(* send_control_message: the text goes to the control output buffer.       *)
send_control_message(c) == [c EXCEPT !.out = TRUE]

(* Mutants of close_data_connection: a field is not reset.                 *)
close_keeps_active(d) ==
    [bev |-> Nil, active |-> d.active, read_cb |-> "NULL", write_cb |-> "NULL",
     tls_cb |-> "NULL", eof_cb |-> "NULL", upload_fd |-> "-1",
     stream |-> IF d.bev = Nil THEN d.stream ELSE "NULL"]

close_keeps_write_cb(d) ==
    [bev |-> Nil, active |-> FALSE, read_cb |-> "NULL", write_cb |-> d.write_cb,
     tls_cb |-> "NULL", eof_cb |-> "NULL", upload_fd |-> "-1",
     stream |-> IF d.bev = Nil THEN d.stream ELSE "NULL"]

close_keeps_read_cb(d) ==
    [bev |-> Nil, active |-> FALSE, read_cb |-> d.read_cb, write_cb |-> "NULL",
     tls_cb |-> "NULL", eof_cb |-> "NULL", upload_fd |-> "-1",
     stream |-> IF d.bev = Nil THEN d.stream ELSE "NULL"]

(* close_data_connection, its effect on the connection fields.  Without a  *)
(* bufferevent everything is reset too, except data_stream.                *)
close_data_connection(d) ==
    [bev |-> Nil, active |-> FALSE, read_cb |-> "NULL", write_cb |-> "NULL",
     tls_cb |-> "NULL", eof_cb |-> "NULL", upload_fd |-> "-1",
     stream |-> IF d.bev = Nil THEN d.stream ELSE "NULL"]

(* Mutant: the bufferevent is not freed.                                   *)
bufferevent_forgotten(bs, d) == bs

(* History: what a transfer with this write callback sends or stores.      *)
Transferred(write_cb) ==
    IF write_cb = "close_on_listcb" THEN "listing"
    ELSE IF write_cb = "close_on_retrcb" THEN "tls_download" ELSE "file"

(* Data of the transfer on b that is buffered: not yet handed to the kernel*)
(* or not yet written to the uploaded file.                                *)
Buffered(b, d) == b.out # "empty" \/ (b.in /\ d.upload_fd = "file")

(* ... and on the bufferevents: bufferevent_free drops what is buffered.   *)
bufferevent_free(bs, d) ==
    IF d.bev = Nil THEN bs
    ELSE [bs EXCEPT ![d.bev] =
            [ClosedBev EXCEPT
               !.lost = IF bs[d.bev].acks > 0 /\ Buffered(bs[d.bev], d)
                        THEN Transferred(d.write_cb) ELSE "nothing"]]

(* History: a final positive reply is sent for the transfer on b.          *)
Acked(bs, b) ==
    IF b = Nil THEN bs
    ELSE [bs EXCEPT ![b].acks = IF @ = 0 THEN 1 ELSE 2]

(* The reply of a command that is answered at once leaves a transfer that  *)
(* is still under way without its final reply.                             *)
Answered == IF reply = "prelim" THEN "prelim" ELSE "done"

(* A client that waits for answers sends the next command once it has the  *)
(* reply.  The deferred on_write runs in the round of the loop in which    *)
(* libevent wrote that reply, before the loop can read the next command.   *)
(* It also waits for a 421 or a second 226 that is still under way: one    *)
(* that does not is a case of "pipeline".                                  *)
(* During the control handshake no command can arrive.                     *)
ClientMaySend ==
    /\ proc = "running"
    /\ ctl.tls # "handshake"
    /\ \/ "pipeline" \in Env
       \/ reply = "done" /\ ~ctl.out /\ ~ctl.drained

-----------------------------------------------------------------------------
(* Commands (execute_ftp_command and the command table)                    *)

(* Every command whose only effect is one reply.                           *)
SimpleReply ==
    /\ ctl' = send_control_message(ctl)
    /\ reply' = Answered
    /\ UNCHANGED <<proc, authenticated, control_write_cb, timers, timeout_event,
                   pasv_listener, data_tls_required, data, bevs>>

(* A reply after which on_write is to run cb.                              *)
ReplyThen(cb) ==
    /\ control_write_cb' = cb
    /\ ctl' = send_control_message(ctl)
    /\ reply' = Answered
    /\ UNCHANGED <<proc, authenticated, timers, timeout_event, pasv_listener,
                   data_tls_required, data, bevs>>

cftp_non_authenticated == SimpleReply

cftp_authenticated == SimpleReply

(* MDTM, DELE, MKD, RMD, CWD and PWD change files or the directory, and    *)
(* reply once on every path.                                               *)
FileReply == SimpleReply

(* USER: 331, 530, or 501 and the end of the session for a bad argument.   *)
cftp_user_authenticated ==
    \/ SimpleReply
    \/ ReplyThen("disable_connection_cb")

(* PASS: the authentication timer is freed after a successful login; the   *)
(* pointer keeps its value.                                                *)
cftp_pass_authenticated ==
    \/ ReplyThen("disable_connection_cb")
    \/ SimpleReply
    \/ /\ ctl' = send_control_message(ctl)
       /\ reply' = Answered
       /\ authenticated' = TRUE
       /\ timers' = [timers EXCEPT ![timeout_event] = "free"]
       /\ UNCHANGED <<proc, control_write_cb, timeout_event, pasv_listener,
                      data_tls_required, data, bevs>>

(* AUTH TLS: 234 is queued on the plain bufferevent, which is then wrapped *)
(* by a filter.  Its write callback is replaced: a due on_write is lost.   *)
upgrade_to_tls ==
    /\ "tls" \in Env
    /\ ctl' = [tls |-> "handshake", out |-> FALSE, drained |-> FALSE]
    /\ reply' = Answered
    /\ UNCHANGED <<proc, authenticated, control_write_cb, timers, timeout_event,
                   pasv_listener, data_tls_required, data, bevs>>

(* PROT P *)
cftp_prot_action ==
    /\ "tls" \in Env
    /\ data_tls_required' = TRUE
    /\ ctl' = send_control_message(ctl)
    /\ reply' = Answered
    /\ UNCHANGED <<proc, authenticated, control_write_cb, timers, timeout_event,
                   pasv_listener, data, bevs>>

(* PASV and EPSV: an open listener is freed, its timer is not.  When no    *)
(* port can be bound the reply is 425 and no timer is started.             *)
data_connection_listener_config ==
    /\ ctl' = send_control_message(ctl)
    /\ reply' = Answered
    /\ \/ /\ pasv_listener' = Nil
          /\ UNCHANGED <<timers, timeout_event>>
       \/ \E t \in Timers :
             /\ timers[t] \in {"free", "expired"}
             /\ timers' = [timers EXCEPT ![t] = "listen"]
             /\ timeout_event' = t
             /\ pasv_listener' = t
    /\ UNCHANGED <<proc, authenticated, control_write_cb, data_tls_required,
                   data, bevs>>

(* The second half of LIST and NLST, for the connection fields d, the      *)
(* bufferevents bs and the control output c the caller has produced.  The  *)
(* directory is opened again, unchecked.  An empty listing is confirmed at *)
(* once, any other by the write callback.                                  *)
send_list_command_output(d, bs, c) ==
    \/ /\ "dirgone" \in Env
       /\ proc' = "crashed"
       /\ data' = d
       /\ bevs' = bs
       /\ ctl' = c
       /\ UNCHANGED <<control_write_cb, reply>>
    \/ /\ data' = [d EXCEPT !.tls_cb = "close_data_connection_on_writecb"]
       /\ control_write_cb' = "close_data_connection_on_writecb"
       /\ ctl' = send_control_message(c)
       /\ bevs' = Acked(bs, d.bev)
       /\ reply' = "done"
       /\ UNCHANGED proc
    \/ /\ data' = [d EXCEPT !.write_cb = "close_on_listcb"]
       /\ bevs' = [bs EXCEPT ![d.bev].out = "high"]
       /\ ctl' = c
       /\ reply' = "prelim"
       /\ UNCHANGED <<proc, control_write_cb>>

handle_list_command ==
    \/ ReplyThen("close_data_connection_on_writecb")
    \/ data.bev = Nil /\ SimpleReply
    \/ /\ data.bev # Nil
       /\ data_tls_required
       /\ data' = [data EXCEPT !.tls_cb = "list"]
       /\ ctl' = send_control_message(ctl)
       /\ reply' = "prelim"
       /\ UNCHANGED <<proc, authenticated, control_write_cb, timers,
                      timeout_event, pasv_listener, data_tls_required, bevs>>
    \/ /\ data.bev # Nil
       /\ ~data_tls_required
       /\ send_list_command_output(data, bevs, send_control_message(ctl))
       /\ UNCHANGED <<authenticated, timers, timeout_event, pasv_listener,
                      data_tls_required>>

(* One read of the file: a full chunk with more to come, the last chunk,   *)
(* the end of an empty file, or an error or an unexpected end, after which *)
(* nothing is written any more.                                            *)
send_next_chunk(d, bs, b, empty) ==
    \/ /\ ~empty
       /\ d.stream = "open"
       /\ data' = d
       /\ bevs' = [bs EXCEPT ![b].out = "high"]
    \/ /\ ~empty
       /\ d.stream = "open"
       /\ data' = [d EXCEPT !.write_cb = "close_on_retrcb"]
       /\ \E o \in {"low", "high"} :
             bevs' = [bs EXCEPT ![b].out = IF @ = "high" THEN "high" ELSE o]
    \/ /\ empty
       /\ data' = [d EXCEPT !.write_cb = "close_on_retrcb", !.stream = "closed"]
       /\ bevs' = bs
    \/ /\ ~empty
       /\ "io" \in Env
       /\ data' = [d EXCEPT !.stream = "closed"]
       /\ bevs' = bs

(* RETR on a TLS data connection: no reply without a data connection or a  *)
(* readable file.                                                          *)
ftp_send_file_with_evbuffer ==
    \/ /\ data.bev = Nil \/ "io" \in Env
       /\ reply' = "dropped"
       /\ UNCHANGED <<ctl, data, bevs>>
    \/ /\ data.bev # Nil
       /\ ctl' = send_control_message(ctl)
       /\ reply' = "prelim"
       /\ \E empty \in {FALSE} \cup {"empty" \in Env} :
             send_next_chunk([data EXCEPT !.stream = "open",
                                          !.write_cb = "send_next_chunk"],
                             [bevs EXCEPT ![data.bev].low = TRUE],
                             data.bev, empty)

(* RETR on a plain data connection: the whole file is queued at once.  The *)
(* data connection stays open when the file cannot be opened.              *)
ftp_send_file_plain ==
    \/ /\ data.bev = Nil
       /\ reply' = "dropped"
       /\ UNCHANGED <<ctl, data, bevs>>
    \/ /\ data.bev # Nil
       /\ "io" \in Env
       /\ ctl' = send_control_message(ctl)
       /\ reply' = Answered
       /\ UNCHANGED <<data, bevs>>
    \/ /\ data.bev # Nil
       /\ ctl' = send_control_message(ctl)
       /\ reply' = "prelim"
       /\ data' = [data EXCEPT
               !.write_cb = "download_completion_on_plain_connection_cb"]
       /\ \/ bevs' = [bevs EXCEPT ![data.bev].out = "high"]
          \/ "empty" \in Env /\ UNCHANGED bevs

cftp_send_file ==
    /\ IF data_tls_required THEN ftp_send_file_with_evbuffer
                            ELSE ftp_send_file_plain
    /\ UNCHANGED <<proc, authenticated, control_write_cb, timers, timeout_event,
                   pasv_listener, data_tls_required>>

(* STOR *)
cftp_recv_file_with_evbuffer ==
    \/ data.bev = Nil /\ SimpleReply
    \/ /\ data.bev # Nil
       /\ "io" \in Env
       /\ ReplyThen("close_data_connection_on_writecb")
    \/ /\ data.bev # Nil
       /\ data' = IF data_tls_required
                  THEN [data EXCEPT !.upload_fd = "file",
                                    !.eof_cb = "on_eof_event_cb",
                                    !.tls_cb = "stor"]
                  ELSE [data EXCEPT !.upload_fd = "file",
                                    !.eof_cb = "on_eof_event_cb",
                                    !.read_cb = "on_stor_read"]
       /\ ctl' = send_control_message(ctl)
       /\ reply' = "prelim"
       /\ UNCHANGED <<proc, authenticated, control_write_cb, timers,
                      timeout_event, pasv_listener, data_tls_required, bevs>>

(* ABOR: an active data connection is closed at once, any other after the  *)
(* reply.                                                                  *)
cftp_abor_authenticated_action ==
    /\ ctl' = send_control_message(ctl)
    /\ reply' = "done"
    /\ IF data.active
       THEN /\ data' = close_data_connection(data)
            /\ bevs' = bufferevent_free(bevs, data)
            /\ UNCHANGED control_write_cb
       ELSE /\ control_write_cb' = "close_data_connection_on_writecb"
            /\ UNCHANGED <<data, bevs>>
    /\ UNCHANGED <<proc, authenticated, timers, timeout_event, pasv_listener,
                   data_tls_required>>

(* Mutant: the login state is not consulted.                               *)
execute_without_login(authenticated_cb, non_authenticated_cb) ==
    authenticated_cb \/ non_authenticated_cb

(* execute_ftp_command: the registered pair of handlers, by login state.   *)
execute_ftp_command(authenticated_cb, non_authenticated_cb) ==
    IF authenticated THEN authenticated_cb ELSE non_authenticated_cb

Command ==
    \/ /\ ClientMaySend
       /\ \/ SimpleReply
          \/ upgrade_to_tls
          \/ cftp_prot_action
          \/ execute_ftp_command(cftp_authenticated, cftp_user_authenticated)
          \/ execute_ftp_command(cftp_authenticated, cftp_pass_authenticated)
          \/ execute_ftp_command(FileReply, cftp_non_authenticated)
          \/ execute_ftp_command(data_connection_listener_config,
                                 cftp_non_authenticated)
          \/ execute_ftp_command(handle_list_command, cftp_non_authenticated)
          \/ execute_ftp_command(cftp_send_file, cftp_non_authenticated)
          \/ execute_ftp_command(cftp_recv_file_with_evbuffer,
                                 cftp_non_authenticated)
    \/ /\ "abort" \in Env
       /\ proc = "running"
       /\ ctl.tls # "handshake"
       /\ execute_ftp_command(cftp_abor_authenticated_action,
                              cftp_non_authenticated)

-----------------------------------------------------------------------------
(* The control connection                                                  *)

(* libevent writes the control output; its deferred on_write is then due.  *)
(* Before the end of the TLS handshake nothing can be written.             *)
ControlWritten ==
    /\ proc = "running"
    /\ ctl.out
    /\ ctl.tls # "handshake"
    /\ ctl' = [ctl EXCEPT !.out = FALSE, !.drained = TRUE]
    /\ UNCHANGED <<proc, authenticated, control_write_cb, timers, timeout_event,
                   pasv_listener, data_tls_required, data, bevs, reply>>

(* on_write runs control_write_cb once, whichever reply was written.       *)
on_write ==
    /\ proc = "running"
    /\ ctl.drained
    /\ ctl' = [ctl EXCEPT !.drained = FALSE]
    /\ control_write_cb' = "NULL"
    /\ proc' = IF control_write_cb = "disable_connection_cb"
               THEN "exited" ELSE proc
    /\ IF control_write_cb = "close_data_connection_on_writecb"
       THEN /\ data' = close_data_connection(data)
            /\ bevs' = bufferevent_free(bevs, data)
       ELSE UNCHANGED <<data, bevs>>
    /\ UNCHANGED <<authenticated, timers, timeout_event, pasv_listener,
                   data_tls_required, reply>>

(* The client completes the TLS handshake of the control connection.       *)
ControlHandshake ==
    /\ proc = "running"
    /\ ctl.tls = "handshake"
    /\ ctl' = [ctl EXCEPT !.tls = "open"]
    /\ UNCHANGED <<proc, authenticated, control_write_cb, timers, timeout_event,
                   pasv_listener, data_tls_required, data, bevs, reply>>

(* on_event: the client closes the control connection, or it fails.        *)
on_event ==
    /\ proc = "running"
    /\ proc' = "exited"
    /\ UNCHANGED <<authenticated, ctl, control_write_cb, timers, timeout_event,
                   pasv_listener, data_tls_required, data, bevs, reply>>

-----------------------------------------------------------------------------
(* Timers                                                                  *)

(* Mutant: the 421 reply is sent, the session is not ended.                *)
terminate_only_tells(t) ==
    /\ proc = "running"
    /\ timers[t] = "auth"
    /\ timers' = [timers EXCEPT ![t] = "expired"]
    /\ ctl' = send_control_message(ctl)
    /\ UNCHANGED <<proc, authenticated, control_write_cb, timeout_event,
                   pasv_listener, data_tls_required, data, bevs, reply>>

(* The authentication timer.                                               *)
terminate_process_on_timeout(t) ==
    /\ proc = "running"
    /\ timers[t] = "auth"
    /\ timers' = [timers EXCEPT ![t] = "expired"]
    /\ control_write_cb' = "disable_connection_cb"
    /\ ctl' = send_control_message(ctl)
    /\ UNCHANGED <<proc, authenticated, timeout_event, pasv_listener,
                   data_tls_required, data, bevs, reply>>

(* Mutants of kill_listener_on_timeout: the listener is freed but its      *)
(* pointer kept, or the timer is freed too.                                *)
kill_keeps_pointer(t) ==
    /\ proc = "running"
    /\ timers[t] = "listen"
    /\ timers' = [timers EXCEPT ![t] = "expired"]
    /\ UNCHANGED <<proc, authenticated, ctl, control_write_cb, timeout_event,
                   pasv_listener, data_tls_required, data, bevs, reply>>

kill_frees_timer(t) ==
    /\ proc = "running"
    /\ timers[t] = "listen"
    /\ timers' = [timers EXCEPT ![t] = "free"]
    /\ UNCHANGED <<proc, authenticated, ctl, control_write_cb, timeout_event,
                   pasv_listener, data_tls_required, data, bevs, reply>>

(* Closes the listener of connection_t, whichever PASV it belongs to.      *)
kill_listener_on_timeout(t) ==
    /\ proc = "running"
    /\ timers[t] = "listen"
    /\ timers' = [timers EXCEPT ![t] = "expired"]
    /\ pasv_listener' = Nil
    /\ UNCHANGED <<proc, authenticated, ctl, control_write_cb, timeout_event,
                   data_tls_required, data, bevs, reply>>

-----------------------------------------------------------------------------
(* The data connection                                                     *)

(* The client connects to the listener, which is freed with its timer.  An *)
(* earlier data connection that is still open is forgotten, not closed.    *)
data_connection_accept_cb(b) ==
    /\ proc = "running"
    /\ pasv_listener # Nil
    /\ ~bevs[b].open
    /\ "multi" \in Env \/ \A c \in Bevs : ~bevs[c].open
    /\ pasv_listener' = Nil
    /\ timers' = [timers EXCEPT ![timeout_event] = "free"]
    /\ data' = [data EXCEPT !.bev = b, !.active = ~data_tls_required]
    /\ bevs' = [bevs EXCEPT ![b] =
                   [ClosedBev EXCEPT !.open = TRUE,
                                     !.tls = data_tls_required,
                                     !.connected = ~data_tls_required,
                                     !.kick = ~data_tls_required]]
    /\ UNCHANGED <<proc, authenticated, ctl, control_write_cb, timeout_event,
                   data_tls_required, reply>>

(* data_connection_event_cb, BEV_EVENT_CONNECTED: the end of the handshake *)
(* of b runs the callback of the connection, for its current data_bev.     *)
DataConnected(b) ==
    LET d == [data EXCEPT !.active = TRUE]
        bs == [bevs EXCEPT ![b].connected = TRUE]
    IN  /\ proc = "running"
        /\ bevs[b].open
        /\ ~bevs[b].connected
        /\ ~bevs[b].eof
        /\ "eager" \in Env \/ reply = "prelim"
        /\ \/ /\ data.tls_cb = "NULL"
              /\ data' = d
              /\ bevs' = bs
              /\ UNCHANGED <<proc, ctl, control_write_cb, reply>>
           \/ /\ data.tls_cb = "stor"
              /\ data' = [d EXCEPT !.read_cb = "on_stor_read"]
              /\ bevs' = bs
              /\ UNCHANGED <<proc, ctl, control_write_cb, reply>>
           \/ /\ data.tls_cb = "close_data_connection_on_writecb"
              /\ data' = close_data_connection(d)
              /\ bevs' = bufferevent_free(bs, d)
              /\ UNCHANGED <<proc, ctl, control_write_cb, reply>>
           \/ /\ data.tls_cb = "list"
              /\ send_list_command_output(d, bs, ctl)
        /\ UNCHANGED <<authenticated, timers, timeout_event, pasv_listener,
                       data_tls_required>>

(* libevent writes data output.  The write callback is due once at most    *)
(* the watermark is left; on an accepted plain socket the first writable   *)
(* event makes it due even when nothing was written.                       *)
DataWritten(b) ==
    /\ proc = "running"
    /\ bevs[b].open
    /\ bevs[b].connected
    /\ \E o \in {"empty", "low"} :
          /\ \/ bevs[b].out = "high"
             \/ o = "empty" /\ (bevs[b].out = "low" \/ bevs[b].kick)
          /\ bevs' = [bevs EXCEPT
                 ![b].out = o,
                 ![b].kick = FALSE,
                 ![b].wr = @ \/ o = "empty" \/ bevs[b].low]
    /\ UNCHANGED <<proc, authenticated, ctl, control_write_cb, timers,
                   timeout_event, pasv_listener, data_tls_required, data, reply>>

(* Mutant: nothing is left for on_write to do.                             *)
ConfirmOnly(bs) ==
    /\ ctl' = send_control_message(ctl)
    /\ bevs' = Acked(bs, data.bev)
    /\ reply' = "done"
    /\ UNCHANGED <<control_write_cb, data>>

(* The 226 reply of a download or a listing; on_write then closes.         *)
ConfirmThenClose(bs) ==
    /\ control_write_cb' = "close_data_connection_on_writecb"
    /\ ctl' = send_control_message(ctl)
    /\ bevs' = Acked(bs, data.bev)
    /\ reply' = "done"
    /\ UNCHANGED data

(* Mutant: the test of the buffer length is inverted.                      *)
download_completion_inverted(b, bs) ==
    IF bs[b].out # "empty"
    THEN ConfirmThenClose(bs)
    ELSE /\ bevs' = bs
         /\ UNCHANGED <<control_write_cb, ctl, data, reply>>

(* download_completion_on_plain_connection_cb waits for an empty buffer.   *)
download_completion_on_plain_connection_cb(b, bs) ==
    IF bs[b].out = "empty"
    THEN ConfirmThenClose(bs)
    ELSE /\ bevs' = bs
         /\ UNCHANGED <<control_write_cb, ctl, data, reply>>

data_connection_write_cb(b) ==
    LET bs == [bevs EXCEPT ![b].wr = FALSE]
    IN  /\ proc = "running"
        /\ bevs[b].open
        /\ bevs[b].wr
        /\ \/ /\ data.write_cb = "NULL"
              /\ bevs' = bs
              /\ UNCHANGED <<control_write_cb, ctl, data, reply>>
           \/ /\ data.write_cb \in {"close_on_listcb", "close_on_retrcb"}
              /\ ConfirmThenClose(bs)
           \/ /\ data.write_cb = "download_completion_on_plain_connection_cb"
              /\ download_completion_on_plain_connection_cb(b, bs)
           \/ /\ data.write_cb = "send_next_chunk"
              /\ send_next_chunk(data, bs, b, FALSE)
              /\ UNCHANGED <<control_write_cb, ctl, reply>>
        /\ UNCHANGED <<proc, authenticated, timers, timeout_event,
                       pasv_listener, data_tls_required>>

(* Input arrives on b and its read callback runs.  on_stor_read writes     *)
(* until the buffer is empty; on a failing write it never returns.         *)
data_connection_read_cb(b) ==
    /\ proc = "running"
    /\ bevs[b].open
    /\ bevs[b].connected
    /\ ~bevs[b].eof
    /\ "early" \in Env \/ data.eof_cb # "NULL"
    /\ \/ /\ data.read_cb = "NULL"
          /\ bevs' = [bevs EXCEPT ![b].in = TRUE]
          /\ UNCHANGED proc
       \/ /\ data.read_cb = "on_stor_read"
          /\ bevs' = [bevs EXCEPT ![b].in = FALSE]
          /\ UNCHANGED proc
       \/ /\ data.read_cb = "on_stor_read"
          /\ "diskfull" \in Env
          /\ bevs' = [bevs EXCEPT ![b].in = TRUE]
          /\ proc' = "spinning"
    /\ UNCHANGED <<authenticated, ctl, control_write_cb, timers, timeout_event,
                   pasv_listener, data_tls_required, data, reply>>

(* The data connection is closed after the end or the failure of b; b      *)
(* itself stays open when it is no longer the one of connection_t.         *)
CloseAfterEvent(b, bs) ==
    /\ data' = close_data_connection(data)
    /\ bevs' = bufferevent_free([bs EXCEPT ![b].eof = TRUE], data)

(* Mutant: the input still buffered at the end is not stored.              *)
on_eof_without_rest(b) ==
    /\ CloseAfterEvent(b, Acked(bevs, data.bev))
    /\ ctl' = send_control_message(ctl)
    /\ reply' = "done"
    /\ UNCHANGED proc

(* on_eof_event_cb: the rest of the input is stored, then 226.             *)
on_eof_event_cb(b) ==
    \/ /\ "diskfull" \in Env
       /\ bevs[data.bev].in
       /\ proc' = "spinning"
       /\ UNCHANGED <<data, bevs, ctl, reply>>
    \/ /\ CloseAfterEvent(b, Acked([bevs EXCEPT ![data.bev].in = FALSE],
                                   data.bev))
       /\ ctl' = send_control_message(ctl)
       /\ reply' = "done"
       /\ UNCHANGED proc

(* The client ends b: an upload it has sent, or a connection nothing is    *)
(* being sent on.                                                          *)
ClientEnds(b) ==
    \/ "neterr" \in Env
    \/ reply = "prelim" /\ data.eof_cb # "NULL" /\ bevs[b].connected
    \/ reply # "prelim" /\ bevs[b].out = "empty"

(* data_connection_event_cb, BEV_EVENT_EOF                                 *)
DataEof(b) ==
    /\ proc = "running"
    /\ bevs[b].open
    /\ ~bevs[b].eof
    /\ ClientEnds(b)
    /\ \/ /\ data.eof_cb # "NULL"
          /\ on_eof_event_cb(b)
       \/ /\ data.eof_cb = "NULL"
          /\ CloseAfterEvent(b, bevs)
          /\ UNCHANGED <<proc, ctl, reply>>
    /\ UNCHANGED <<authenticated, control_write_cb, timers, timeout_event,
                   pasv_listener, data_tls_required>>

(* data_connection_event_cb, BEV_EVENT_ERROR                               *)
DataError(b) ==
    /\ proc = "running"
    /\ bevs[b].open
    /\ ~bevs[b].eof
    /\ "neterr" \in Env
    /\ CloseAfterEvent(b, bevs)
    /\ UNCHANGED <<proc, authenticated, ctl, control_write_cb, timers,
                   timeout_event, pasv_listener, data_tls_required, reply>>

(* A write to a data connection the client has reset raises SIGPIPE, which *)
(* nothing ignores: the process ends.                                      *)
DataBroken(b) ==
    /\ proc = "running"
    /\ bevs[b].open
    /\ bevs[b].connected
    /\ bevs[b].out # "empty"
    /\ "neterr" \in Env
    /\ proc' = "crashed"
    /\ UNCHANGED <<authenticated, ctl, control_write_cb, timers, timeout_event,
                   pasv_listener, data_tls_required, data, bevs, reply>>

-----------------------------------------------------------------------------
Next ==
    \/ Command
    \/ ControlWritten
    \/ on_write
    \/ ControlHandshake
    \/ on_event
    \/ \E t \in Timers : \/ terminate_process_on_timeout(t)
                         \/ kill_listener_on_timeout(t)
    \/ \E b \in Bevs : \/ data_connection_accept_cb(b)
                       \/ DataConnected(b)
                       \/ DataWritten(b)
                       \/ data_connection_write_cb(b)
                       \/ data_connection_read_cb(b)
                       \/ DataEof(b)
                       \/ DataError(b)
                       \/ DataBroken(b)

Spec == Init /\ [][Next]_vars

(* What the loop and a cooperative client do eventually: libevent delivers *)
(* what is ready and fires its timers; the client reads the data it asked  *)
(* for, completes the data handshake and ends the upload it announced.     *)
(* Nobody owes a command, a connection or a control handshake.             *)
Fairness ==
    /\ WF_vars(ControlWritten)
    /\ WF_vars(on_write)
    /\ \A t \in Timers : /\ WF_vars(terminate_process_on_timeout(t))
                         /\ WF_vars(kill_listener_on_timeout(t))
    /\ \A b \in Bevs : /\ WF_vars(DataWritten(b))
                       /\ WF_vars(data_connection_write_cb(b))
                       /\ WF_vars(DataConnected(b))
                       /\ WF_vars(data.eof_cb # "NULL" /\ DataEof(b))

FairSpec == Spec /\ Fairness

-----------------------------------------------------------------------------
(* Safety, whatever the client, the network and the disk do                *)

(* timeout_event is freed in two places that do not clear the pointer: by  *)
(* PASS and by data_connection_accept_cb.  Whenever one of them can still  *)
(* run, the event it would free is allocated: no double free.              *)
TimerSafety ==
    ~authenticated \/ pasv_listener # Nil => timers[timeout_event] # "free"

(* An open passive listener has its own timer pending, and timeout_event   *)
(* is that timer: the listener cannot stay open for ever, and accepting on *)
(* it cancels the right timer.                                             *)
ListenerTimed ==
    pasv_listener # Nil => /\ timeout_event = pasv_listener
                           /\ timers[pasv_listener] = "listen"

(* No listener and no data connection exists before the login.             *)
AuthGate ==
    pasv_listener # Nil \/ data.bev # Nil => authenticated

(* data_bev never points to a freed bufferevent, and once the data         *)
(* connection is gone no callback or stream of its transfer is left to act *)
(* on the next one or to use the null data_bev.                            *)
NothingStale ==
    /\ data.bev # Nil => bevs[data.bev].open
    /\ data.bev = Nil => /\ data.read_cb = "NULL"
                         /\ data.write_cb = "NULL"
                         /\ data.tls_cb = "NULL"
                         /\ data.eof_cb = "NULL"
                         /\ data.stream = "NULL"

(* The callbacks of a transfer find what they use: send_next_chunk its     *)
(* data_stream, the upload callbacks an upload_fd that STOR opened and not *)
(* the 0 of calloc (the terminal) or the -1 of a closed transfer.          *)
CallbacksEquipped ==
    /\ data.write_cb = "send_next_chunk" => data.stream # "NULL"
    /\ data.read_cb # "NULL" \/ data.eof_cb # "NULL" \/ data.tls_cb = "stor"
          => data.upload_fd = "file"

SafetyInv == /\ TypeOK
             /\ TimerSafety
             /\ ListenerTimed
             /\ AuthGate
             /\ NothingStale
             /\ CallbacksEquipped

-----------------------------------------------------------------------------
(* Safety for a client that waits for replies and uses one data connection *)

(* An upload or a plain download confirmed by 226 is never cut short: when *)
(* its connection is freed, download_completion_on_plain_connection_cb has *)
(* handed all output to the kernel, or on_eof_event_cb all input to the    *)
(* file.                                                                   *)
NoLoss == \A b \in Bevs : bevs[b].lost # "file"

(* Every open data bufferevent is the one of connection_t, so that it can  *)
(* still be closed: none is leaked over any sequence of transfers.         *)
NoLeak == \A b \in Bevs : bevs[b].open => data.bev = b

(* data_active tells whether the data connection is established, which is  *)
(* what ABOR decides on.                                                   *)
ActiveFaithful ==
    data.active <=> data.bev # Nil /\ bevs[data.bev].connected

-----------------------------------------------------------------------------
(* What the repository says and the code does not do                       *)

(* A download over TLS that close_on_retrcb confirms is whole when its     *)
(* connection is freed.                                                    *)
TlsDownloadWhole == \A b \in Bevs : bevs[b].lost # "tls_download"

(* One transfer gets one final reply: close_on_listcb sends 226 once.      *)
OneFinalReply == \A b \in Bevs : bevs[b].acks < 2

(* Every command ends with a final reply, or the session ends.             *)
CommandAnswered ==
    reply # "done" ~> reply = "done" \/ proc # "running"

-----------------------------------------------------------------------------
(* Liveness                                                                *)

(* A transfer under way without PROT P, whose callbacks are installed,     *)
(* gets its final reply, unless its data connection or the session is      *)
(* gone: something always triggers the callback that completes LIST, RETR  *)
(* or STOR, whatever is handled before.                                    *)
TransferEnds ==
    (/\ reply = "prelim"
     /\ ~data_tls_required
     /\ data.write_cb # "NULL" \/ data.eof_cb # "NULL")
        ~> reply # "prelim" \/ data.bev = Nil \/ proc # "running"

(* After the 226 of a download or a listing the data connection is closed, *)
(* which is how the client learns where the data ends.                     *)
ConfirmedIsClosed ==
    \A b \in Bevs :
        bevs[b].acks > 0 ~> ~bevs[b].open \/ proc # "running"

(* A session that does not log in is ended, if it does not ask for TLS: a  *)
(* client may stop in the handshake, where no reply can be written.        *)
UnauthSessionEnds ==
    ~authenticated ~> authenticated \/ ctl.tls # "plain" \/ proc # "running"

(* A passive listener does not stay open.                                  *)
ListenerCloses ==
    \A t \in Timers : pasv_listener = t ~> pasv_listener # t \/ proc # "running"

=============================================================================
