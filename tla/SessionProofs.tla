---------------------------- MODULE SessionProofs ----------------------------
(***************************************************************************)
(* SafetyInv of Session is inductive: the memory and login safety of the   *)
(* session hold for any number of data connections and timers and whatever *)
(* the client, the network and the disk do.                                *)
(***************************************************************************)
EXTENDS Session, TLAPS

(* Closing gives well-typed fields that point to nothing.                  *)
LEMMA CloseFields ==
    ASSUME NEW d \in DataType
    PROVE  /\ close_data_connection(d) \in DataType
           /\ close_data_connection(d).bev = Nil
           /\ close_data_connection(d).read_cb = "NULL"
           /\ close_data_connection(d).write_cb = "NULL"
           /\ close_data_connection(d).tls_cb = "NULL"
           /\ close_data_connection(d).eof_cb = "NULL"
           /\ close_data_connection(d).stream =
                 IF d.bev = Nil THEN d.stream ELSE "NULL"
  BY DEF close_data_connection, DataType

(* Freeing keeps the bufferevents well-typed.                              *)
LEMMA FreeType ==
    ASSUME NEW bs \in [Bevs -> BevType], NEW d \in DataType
    PROVE  bufferevent_free(bs, d) \in [Bevs -> BevType]
<1>1. CASE d.bev = Nil
  BY <1>1 DEF bufferevent_free
<1>2. CASE d.bev # Nil
  <2> DEFINE l == IF bs[d.bev].acks > 0 /\ Buffered(bs[d.bev], d)
                  THEN Transferred(d.write_cb) ELSE "nothing"
  <2>1. bufferevent_free(bs, d) =
            [bs EXCEPT ![d.bev] = [ClosedBev EXCEPT !.lost = l]]
    BY <1>2, Zenon DEF bufferevent_free
  <2>2. l \in {"nothing", "listing", "tls_download", "file"}
    BY DEF Transferred
  <2> HIDE DEF l
  <2>3. [ClosedBev EXCEPT !.lost = l] \in BevType
    <3>1. ClosedBev \in BevType
      BY DEF ClosedBev, BevType
    <3>2. ASSUME NEW r \in BevType,
                 NEW x \in {"nothing", "listing", "tls_download", "file"}
          PROVE  [r EXCEPT !.lost = x] \in BevType
      BY DEF BevType
    <3> QED BY <3>1, <3>2, <2>2
  <2> QED BY <2>1, <2>3
<1> QED BY <1>1, <1>2

(* Counting a reply changes nothing else of a bufferevent.                 *)
LEMMA AckedType ==
    ASSUME NEW bs \in [Bevs -> BevType], NEW b \in Bevs \cup {Nil}
    PROVE  /\ Acked(bs, b) \in [Bevs -> BevType]
           /\ \A c \in Bevs : Acked(bs, b)[c].open = bs[c].open
  BY DEF Acked, BevType

-----------------------------------------------------------------------------
(* A fresh session satisfies the invariant.                                *)
LEMMA InitSafe == Init => SafetyInv
<1> SUFFICES ASSUME Init PROVE SafetyInv
  OBVIOUS
<1> USE SessionAssumption
<1>1. ClosedBev \in BevType
  BY DEF ClosedBev, BevType
<1>2. TypeOK
  <2>1. ctl \in CtlType
    BY DEF Init, CtlType
  <2>2. data \in DataType
    BY DEF Init, DataType
  <2> QED BY <1>1, <2>1, <2>2 DEF Init, TypeOK
<1>3. TimerSafety /\ ListenerTimed /\ AuthGate
  BY DEF Init, TimerSafety, ListenerTimed, AuthGate
<1>4. NothingStale /\ CallbacksEquipped
  BY DEF Init, NothingStale, CallbacksEquipped
<1> QED BY <1>2, <1>3, <1>4 DEF SafetyInv

(* Steps that only queue a reply or change what on_write is to do.         *)
LEMMA ReplySafe ==
    ASSUME SafetyInv,
           ctl' \in CtlType,
           control_write_cb' \in {"NULL", "disable_connection_cb",
                                 "close_data_connection_on_writecb"},
           reply' \in {"done", "prelim", "dropped"},
           proc' \in {"running", "exited", "crashed", "spinning"},
           data_tls_required' \in BOOLEAN,
           UNCHANGED <<authenticated, timers, timeout_event, pasv_listener,
                       data, bevs>>
    PROVE  SafetyInv'
  BY DEF SafetyInv, TypeOK, TimerSafety, ListenerTimed, AuthGate, NothingStale,
         CallbacksEquipped

(* Steps of the login, the listener and the timers, which leave the data   *)
(* connection alone.                                                       *)
LEMMA TimersSafe ==
    ASSUME SafetyInv,
           ctl' \in CtlType,
           control_write_cb' \in {"NULL", "disable_connection_cb",
                                 "close_data_connection_on_writecb"},
           reply' \in {"done", "prelim", "dropped"},
           authenticated' \in BOOLEAN,
           authenticated => authenticated',
           timers' \in [Timers -> {"free", "auth", "listen", "expired"}],
           timeout_event' \in Timers,
           pasv_listener' \in Timers \cup {Nil},
           TimerSafety', ListenerTimed', pasv_listener' # Nil => authenticated',
           UNCHANGED <<proc, data_tls_required, data, bevs>>
    PROVE  SafetyInv'
  BY DEF SafetyInv, TypeOK, AuthGate, NothingStale, CallbacksEquipped

(* Steps of the data connection that leave the login and the timers alone: *)
(* it is as it was or gone.                                                *)
LEMMA DataSafe ==
    ASSUME SafetyInv,
           ctl' \in CtlType,
           control_write_cb' \in {"NULL", "disable_connection_cb",
                                 "close_data_connection_on_writecb"},
           reply' \in {"done", "prelim", "dropped"},
           proc' \in {"running", "exited", "crashed", "spinning"},
           data' \in DataType,
           bevs' \in [Bevs -> BevType],
           data'.bev \in {data.bev, Nil},
           NothingStale', CallbacksEquipped',
           UNCHANGED <<authenticated, timers, timeout_event, pasv_listener,
                       data_tls_required>>
    PROVE  SafetyInv'
  BY DEF SafetyInv, TypeOK, TimerSafety, ListenerTimed, AuthGate

(* close_data_connection leaves nothing behind.                            *)
LEMMA CloseSafe ==
    ASSUME SafetyInv, NEW bs \in [Bevs -> BevType],
           data' = close_data_connection(data),
           bevs' = bufferevent_free(bs, data)
    PROVE  /\ data' \in DataType
           /\ bevs' \in [Bevs -> BevType]
           /\ data'.bev \in {data.bev, Nil}
           /\ NothingStale'
           /\ CallbacksEquipped'
<1>1. data \in DataType
  BY DEF SafetyInv, TypeOK
<1>2. data.bev = Nil => data.stream = "NULL"
  BY DEF SafetyInv, NothingStale
<1> QED BY <1>1, <1>2, CloseFields, FreeType DEF NothingStale, CallbacksEquipped

(* Queueing a reply keeps the type of the control bufferevent.             *)
LEMMA ControlType ==
    ASSUME NEW c \in CtlType
    PROVE  send_control_message(c) \in CtlType
  BY DEF send_control_message, CtlType

-----------------------------------------------------------------------------
(* Commands                                                                *)

(* A command that only replies.                                            *)
LEMMA SimpleReplySafe ==
    ASSUME SafetyInv, SimpleReply
    PROVE  SafetyInv'
<1>1. ctl' \in CtlType /\ reply' \in {"done", "prelim", "dropped"}
  BY ControlType DEF SimpleReply, Answered, SafetyInv, TypeOK
<1> QED BY <1>1, ReplySafe DEF SimpleReply, SafetyInv, TypeOK

(* A reply that leaves a callback for on_write.                            *)
LEMMA ReplyThenSafe ==
    ASSUME SafetyInv,
           NEW cb \in {"disable_connection_cb",
                       "close_data_connection_on_writecb"},
           ReplyThen(cb)
    PROVE  SafetyInv'
<1>1. ctl' \in CtlType /\ reply' \in {"done", "prelim", "dropped"}
  BY ControlType DEF ReplyThen, Answered, SafetyInv, TypeOK
<1> QED BY <1>1, ReplySafe DEF ReplyThen, SafetyInv, TypeOK

(* USER and PASS: the login timer is freed once.                           *)
LEMMA LoginSafe ==
    ASSUME SafetyInv, ~authenticated,
           cftp_user_authenticated \/ cftp_pass_authenticated
    PROVE  SafetyInv'
<1>1. CASE SimpleReply \/ ReplyThen("disable_connection_cb")
  BY <1>1, SimpleReplySafe, ReplyThenSafe
<1>2. CASE /\ ctl' = send_control_message(ctl)
           /\ reply' = Answered
           /\ authenticated' = TRUE
           /\ timers' = [timers EXCEPT ![timeout_event] = "free"]
           /\ UNCHANGED <<proc, control_write_cb, timeout_event, pasv_listener,
                          data_tls_required, data, bevs>>
  <2>1. pasv_listener = Nil
    BY DEF SafetyInv, AuthGate
  <2>2. TimerSafety' /\ ListenerTimed'
    BY <1>2, <2>1 DEF TimerSafety, ListenerTimed
  <2>3. ctl' \in CtlType /\ reply' \in {"done", "prelim", "dropped"}
    BY <1>2, ControlType DEF Answered, SafetyInv, TypeOK
  <2>4. timers' \in [Timers -> {"free", "auth", "listen", "expired"}]
    BY <1>2 DEF SafetyInv, TypeOK
  <2> QED BY <1>2, <2>1, <2>2, <2>3, <2>4, TimersSafe DEF SafetyInv, TypeOK
<1> QED BY <1>1, <1>2 DEF cftp_user_authenticated, cftp_pass_authenticated

(* AUTH TLS and PROT.                                                      *)
LEMMA TlsCommandsSafe ==
    ASSUME SafetyInv, upgrade_to_tls \/ cftp_prot_action
    PROVE  SafetyInv'
<1>1. reply' \in {"done", "prelim", "dropped"}
  BY DEF upgrade_to_tls, cftp_prot_action, Answered
<1>2. CASE upgrade_to_tls
  <2>1. ctl' \in CtlType
    BY <1>2 DEF upgrade_to_tls, CtlType
  <2> QED BY <1>1, <1>2, <2>1, ReplySafe DEF upgrade_to_tls, SafetyInv, TypeOK
<1>3. CASE cftp_prot_action
  <2>1. ctl' \in CtlType
    BY <1>3, ControlType DEF cftp_prot_action, SafetyInv, TypeOK
  <2> QED BY <1>1, <1>3, <2>1, ReplySafe DEF cftp_prot_action, SafetyInv, TypeOK
<1> QED BY <1>2, <1>3

(* PASV and EPSV: the new listener gets a fresh timer.                     *)
LEMMA ListenerConfigSafe ==
    ASSUME SafetyInv, authenticated, data_connection_listener_config
    PROVE  SafetyInv'
<1> USE SessionAssumption
<1>1. ctl' \in CtlType /\ reply' \in {"done", "prelim", "dropped"}
  BY ControlType DEF data_connection_listener_config, Answered, SafetyInv, TypeOK
<1>2. CASE pasv_listener' = Nil /\ UNCHANGED <<timers, timeout_event>>
  <2>1. TimerSafety' /\ ListenerTimed'
    BY <1>2 DEF data_connection_listener_config, TimerSafety, ListenerTimed
  <2> QED BY <1>1, <1>2, <2>1, TimersSafe
          DEF data_connection_listener_config, SafetyInv, TypeOK
<1>3. ASSUME NEW t \in Timers,
             timers' = [timers EXCEPT ![t] = "listen"],
             timeout_event' = t,
             pasv_listener' = t
      PROVE  SafetyInv'
  <2>1. timers' \in [Timers -> {"free", "auth", "listen", "expired"}]
    BY <1>3 DEF SafetyInv, TypeOK
  <2>2. TimerSafety' /\ ListenerTimed'
    BY <1>3 DEF TimerSafety, ListenerTimed, SafetyInv, TypeOK
  <2> QED BY <1>1, <1>3, <2>1, <2>2, TimersSafe
          DEF data_connection_listener_config, SafetyInv, TypeOK
<1> QED BY <1>2, <1>3 DEF data_connection_listener_config

(* A listing is written to a data connection that exists.                  *)
LEMMA ListOutputSafe ==
    ASSUME SafetyInv,
           NEW d \in DataType, NEW bs \in [Bevs -> BevType], NEW c \in CtlType,
           d.bev = data.bev, d.bev # Nil, bs[d.bev].open,
           d.write_cb = "send_next_chunk" => d.stream # "NULL",
           d.read_cb # "NULL" \/ d.eof_cb # "NULL" \/ d.tls_cb = "stor"
              => d.upload_fd = "file",
           send_list_command_output(d, bs, c),
           UNCHANGED <<authenticated, timers, timeout_event, pasv_listener,
                       data_tls_required>>
    PROVE  SafetyInv'
<1> d.bev \in Bevs
  BY DEF DataType
<1>1. CASE /\ proc' = "crashed"
           /\ data' = d
           /\ bevs' = bs
           /\ ctl' = c
           /\ UNCHANGED <<control_write_cb, reply>>
  <2>1. NothingStale' /\ CallbacksEquipped'
    BY <1>1 DEF NothingStale, CallbacksEquipped
  <2> QED BY <1>1, <2>1, DataSafe DEF SafetyInv, TypeOK
<1>2. CASE /\ data' = [d EXCEPT !.tls_cb = "close_data_connection_on_writecb"]
           /\ control_write_cb' = "close_data_connection_on_writecb"
           /\ ctl' = send_control_message(c)
           /\ bevs' = Acked(bs, d.bev)
           /\ reply' = "done"
           /\ UNCHANGED proc
  <2>1. /\ data' \in DataType
        /\ bevs' \in [Bevs -> BevType]
        /\ bevs'[d.bev].open
        /\ ctl' \in CtlType
    BY <1>2, AckedType, ControlType DEF DataType
  <2>2. NothingStale' /\ CallbacksEquipped'
    BY <1>2, <2>1 DEF NothingStale, CallbacksEquipped, DataType
  <2>3. data'.bev = data.bev
    BY <1>2 DEF DataType
  <2> QED BY <1>2, <2>1, <2>2, <2>3, DataSafe DEF SafetyInv, TypeOK
<1>3. CASE /\ data' = [d EXCEPT !.write_cb = "close_on_listcb"]
           /\ bevs' = [bs EXCEPT ![d.bev].out = "high"]
           /\ ctl' = c
           /\ reply' = "prelim"
           /\ UNCHANGED <<proc, control_write_cb>>
  <2>1. data' \in DataType /\ data'.bev = data.bev
    BY <1>3 DEF DataType
  <2>2. bevs' \in [Bevs -> BevType] /\ bevs'[d.bev].open
    BY <1>3 DEF BevType
  <2>3. NothingStale' /\ CallbacksEquipped'
    BY <1>3, <2>1, <2>2 DEF NothingStale, CallbacksEquipped, DataType
  <2> QED BY <1>3, <2>1, <2>2, <2>3, DataSafe DEF SafetyInv, TypeOK
<1> QED BY <1>1, <1>2, <1>3 DEF send_list_command_output

(* LIST and NLST.                                                          *)
LEMMA ListSafe ==
    ASSUME SafetyInv, handle_list_command
    PROVE  SafetyInv'
<1>1. CASE ReplyThen("close_data_connection_on_writecb") \/ SimpleReply
  BY <1>1, SimpleReplySafe, ReplyThenSafe
<1>2. CASE /\ data.bev # Nil
           /\ data' = [data EXCEPT !.tls_cb = "list"]
           /\ ctl' = send_control_message(ctl)
           /\ reply' = "prelim"
           /\ UNCHANGED <<proc, authenticated, control_write_cb, timers,
                          timeout_event, pasv_listener, data_tls_required, bevs>>
  <2>1. data' \in DataType /\ data'.bev = data.bev /\ ctl' \in CtlType
    BY <1>2, ControlType DEF DataType, SafetyInv, TypeOK
  <2>2. NothingStale' /\ CallbacksEquipped'
    BY <1>2, <2>1 DEF NothingStale, CallbacksEquipped, DataType, SafetyInv,
                      TypeOK
  <2> QED BY <1>2, <2>1, <2>2, DataSafe DEF SafetyInv, TypeOK
<1>3. CASE /\ data.bev # Nil
           /\ send_list_command_output(data, bevs, send_control_message(ctl))
           /\ UNCHANGED <<authenticated, timers, timeout_event, pasv_listener,
                          data_tls_required>>
  BY <1>3, ListOutputSafe, ControlType
     DEF SafetyInv, TypeOK, NothingStale, CallbacksEquipped
<1> QED BY <1>1, <1>2, <1>3 DEF handle_list_command

(* A chunk goes to an open bufferevent; a stream stays in place.           *)
LEMMA ChunkFacts ==
    ASSUME NEW d \in DataType, NEW bs \in [Bevs -> BevType],
           NEW b \in Bevs, NEW empty \in BOOLEAN,
           d.stream # "NULL",
           send_next_chunk(d, bs, b, empty)
    PROVE  /\ data' \in DataType
           /\ bevs' \in [Bevs -> BevType]
           /\ \A c \in Bevs : bevs'[c].open = bs[c].open
           /\ data'.stream # "NULL"
           /\ data'.bev = d.bev
           /\ data'.read_cb = d.read_cb
           /\ data'.eof_cb = d.eof_cb
           /\ data'.tls_cb = d.tls_cb
           /\ data'.upload_fd = d.upload_fd
<1>1. \/ data' = d
      \/ data' = [d EXCEPT !.write_cb = "close_on_retrcb"]
      \/ data' = [d EXCEPT !.write_cb = "close_on_retrcb", !.stream = "closed"]
      \/ data' = [d EXCEPT !.stream = "closed"]
  BY DEF send_next_chunk
<1>2. \E o \in {"empty", "low", "high"} :
          bevs' = bs \/ bevs' = [bs EXCEPT ![b].out = o]
  BY DEF send_next_chunk
<1>3. bevs' \in [Bevs -> BevType] /\ \A c \in Bevs : bevs'[c].open = bs[c].open
  BY <1>2 DEF BevType
<1> QED BY <1>1, <1>3, ZenonT(30) DEF DataType

(* RETR, on a TLS and on a plain data connection.                          *)
LEMMA RetrSafe ==
    ASSUME SafetyInv, cftp_send_file
    PROVE  SafetyInv'
<1>1. CASE reply' = "dropped" /\ UNCHANGED <<ctl, data, bevs>>
  BY <1>1, ReplySafe DEF cftp_send_file, SafetyInv, TypeOK
<1>2. CASE /\ ctl' = send_control_message(ctl)
           /\ reply' = Answered
           /\ UNCHANGED <<data, bevs>>
  <2>1. ctl' \in CtlType /\ reply' \in {"done", "prelim", "dropped"}
    BY <1>2, ControlType DEF Answered, SafetyInv, TypeOK
  <2> QED BY <1>2, <2>1, ReplySafe DEF cftp_send_file, SafetyInv, TypeOK
<1>3. ASSUME data.bev # Nil,
             ctl' = send_control_message(ctl),
             reply' = "prelim",
             NEW empty \in BOOLEAN,
             send_next_chunk([data EXCEPT !.stream = "open",
                                          !.write_cb = "send_next_chunk"],
                             [bevs EXCEPT ![data.bev].low = TRUE],
                             data.bev, empty)
      PROVE  SafetyInv'
  <2> DEFINE d == [data EXCEPT !.stream = "open",
                               !.write_cb = "send_next_chunk"]
             bs == [bevs EXCEPT ![data.bev].low = TRUE]
  <2>1. data.bev \in Bevs /\ bevs[data.bev].open
    BY <1>3 DEF DataType, NothingStale, SafetyInv, TypeOK
  <2>2. /\ d \in DataType
        /\ d.stream = "open"
        /\ d.bev = data.bev
        /\ d.read_cb = data.read_cb
        /\ d.eof_cb = data.eof_cb
        /\ d.tls_cb = data.tls_cb
        /\ d.upload_fd = data.upload_fd
    BY DEF DataType, SafetyInv, TypeOK
  <2>3. bs \in [Bevs -> BevType] /\ bs[data.bev].open
    <3>1. ASSUME NEW r \in BevType
          PROVE  /\ [r EXCEPT !.low = TRUE] \in BevType
                 /\ [r EXCEPT !.low = TRUE].open = r.open
      BY DEF BevType
    <3>2. bevs \in [Bevs -> BevType]
      BY DEF SafetyInv, TypeOK
    <3> QED BY <2>1, <3>1, <3>2
  <2>4. send_next_chunk(d, bs, data.bev, empty)
    BY <1>3
  <2> HIDE DEF d, bs
  <2>5. /\ data' \in DataType
        /\ bevs' \in [Bevs -> BevType]
        /\ bevs'[data.bev].open
        /\ data'.stream # "NULL"
        /\ data'.bev = data.bev
        /\ data'.read_cb = data.read_cb
        /\ data'.eof_cb = data.eof_cb
        /\ data'.tls_cb = data.tls_cb
        /\ data'.upload_fd = data.upload_fd
    BY <2>1, <2>2, <2>3, <2>4, ChunkFacts
  <2>6. NothingStale' /\ CallbacksEquipped'
    BY <1>3, <2>5 DEF NothingStale, CallbacksEquipped, SafetyInv
  <2>7. ctl' \in CtlType
    BY <1>3, ControlType DEF SafetyInv, TypeOK
  <2> QED BY <1>3, <2>5, <2>6, <2>7, DataSafe
          DEF cftp_send_file, SafetyInv, TypeOK
<1>4. ASSUME data.bev # Nil,
             ctl' = send_control_message(ctl),
             reply' = "prelim",
             data' = [data EXCEPT
               !.write_cb = "download_completion_on_plain_connection_cb"],
             bevs' = bevs \/ bevs' = [bevs EXCEPT ![data.bev].out = "high"]
      PROVE  SafetyInv'
  <2>1. data.bev \in Bevs /\ bevs[data.bev].open
    BY <1>4 DEF DataType, NothingStale, SafetyInv, TypeOK
  <2>2. data' \in DataType /\ data'.bev = data.bev
    BY <1>4 DEF DataType, SafetyInv, TypeOK
  <2>3. bevs' \in [Bevs -> BevType] /\ bevs'[data.bev].open
    BY <1>4, <2>1 DEF BevType, SafetyInv, TypeOK
  <2>4. NothingStale' /\ CallbacksEquipped'
    BY <1>4, <2>2, <2>3 DEF NothingStale, CallbacksEquipped, DataType,
                            SafetyInv, TypeOK
  <2>5. ctl' \in CtlType
    BY <1>4, ControlType DEF SafetyInv, TypeOK
  <2> QED BY <1>4, <2>2, <2>3, <2>4, <2>5, DataSafe
          DEF cftp_send_file, SafetyInv, TypeOK
<1>5. CASE ftp_send_file_with_evbuffer
  <2>1. {FALSE} \cup {"empty" \in Env} \subseteq BOOLEAN
    OBVIOUS
  <2> QED BY <1>1, <1>3, <1>5, <2>1, Zenon DEF ftp_send_file_with_evbuffer
<1>6. CASE ftp_send_file_plain
  BY <1>1, <1>2, <1>4, <1>6 DEF ftp_send_file_plain
<1> QED BY <1>5, <1>6 DEF cftp_send_file

(* STOR opens the file before it sets the callbacks.                       *)
LEMMA StorSafe ==
    ASSUME SafetyInv, cftp_recv_file_with_evbuffer
    PROVE  SafetyInv'
<1>1. CASE ReplyThen("close_data_connection_on_writecb") \/ SimpleReply
  BY <1>1, SimpleReplySafe, ReplyThenSafe
<1>2. CASE /\ data.bev # Nil
           /\ data' = IF data_tls_required
                      THEN [data EXCEPT !.upload_fd = "file",
                                        !.eof_cb = "on_eof_event_cb",
                                        !.tls_cb = "stor"]
                      ELSE [data EXCEPT !.upload_fd = "file",
                                        !.eof_cb = "on_eof_event_cb",
                                        !.read_cb = "on_stor_read"]
           /\ ctl' = send_control_message(ctl)
           /\ reply' = "prelim"
           /\ UNCHANGED <<proc, authenticated, control_write_cb, timers,
                          timeout_event, pasv_listener, data_tls_required, bevs>>
  <2>1. /\ data' \in DataType
        /\ data'.bev = data.bev
        /\ data'.upload_fd = "file"
        /\ data'.write_cb = data.write_cb
        /\ data'.stream = data.stream
    BY <1>2 DEF DataType, SafetyInv, TypeOK
  <2>2. NothingStale' /\ CallbacksEquipped'
    BY <1>2, <2>1 DEF NothingStale, CallbacksEquipped, SafetyInv
  <2>3. ctl' \in CtlType
    BY <1>2, ControlType DEF SafetyInv, TypeOK
  <2> QED BY <1>2, <2>1, <2>2, <2>3, DataSafe DEF SafetyInv, TypeOK
<1> QED BY <1>1, <1>2 DEF cftp_recv_file_with_evbuffer

(* ABOR.                                                                   *)
LEMMA AborSafe ==
    ASSUME SafetyInv, cftp_abor_authenticated_action
    PROVE  SafetyInv'
<1>1. ctl' \in CtlType /\ reply' \in {"done", "prelim", "dropped"}
  BY ControlType DEF cftp_abor_authenticated_action, SafetyInv, TypeOK
<1>2. CASE data.active
  BY <1>1, <1>2, CloseSafe, DataSafe
     DEF cftp_abor_authenticated_action, SafetyInv, TypeOK
<1>3. CASE ~data.active
  BY <1>1, <1>3, ReplySafe DEF cftp_abor_authenticated_action, SafetyInv, TypeOK
<1> QED BY <1>2, <1>3

(* Any command, by way of the gate of execute_ftp_command.                 *)
LEMMA CommandSafe ==
    ASSUME SafetyInv, Command
    PROVE  SafetyInv'
<1>1. CASE authenticated
  BY <1>1, SimpleReplySafe, TlsCommandsSafe, ListenerConfigSafe, ListSafe,
     RetrSafe, StorSafe, AborSafe
     DEF Command, execute_ftp_command, cftp_authenticated, FileReply
<1>2. CASE ~authenticated
  BY <1>2, SimpleReplySafe, TlsCommandsSafe, LoginSafe
     DEF Command, execute_ftp_command, cftp_non_authenticated
<1> QED BY <1>1, <1>2

-----------------------------------------------------------------------------
(* The control connection and the timers                                   *)

(* The control bufferevent: output, handshake and its end.                 *)
LEMMA ControlSafe ==
    ASSUME SafetyInv, ControlWritten \/ ControlHandshake \/ on_event
    PROVE  SafetyInv'
<1>1. ctl' \in CtlType
  <2>1. CASE ControlWritten
    BY <2>1 DEF ControlWritten, CtlType, SafetyInv, TypeOK
  <2>2. CASE ControlHandshake
    BY <2>2 DEF ControlHandshake, CtlType, SafetyInv, TypeOK
  <2>3. CASE on_event
    BY <2>3 DEF on_event, SafetyInv, TypeOK
  <2> QED BY <2>1, <2>2, <2>3
<1> QED BY <1>1, ReplySafe
        DEF ControlWritten, ControlHandshake, on_event, SafetyInv, TypeOK

(* on_write runs and clears control_write_cb.                              *)
LEMMA OnWriteSafe ==
    ASSUME SafetyInv, on_write
    PROVE  SafetyInv'
<1>1. ctl' \in CtlType
  BY DEF on_write, CtlType, SafetyInv, TypeOK
<1>2. CASE control_write_cb = "close_data_connection_on_writecb"
  BY <1>1, <1>2, CloseSafe, DataSafe DEF on_write, SafetyInv, TypeOK
<1>3. CASE control_write_cb # "close_data_connection_on_writecb"
  BY <1>1, <1>3, ReplySafe DEF on_write, SafetyInv, TypeOK
<1> QED BY <1>2, <1>3

(* The two timeouts.                                                       *)
LEMMA TimeoutSafe ==
    ASSUME SafetyInv, NEW t \in Timers,
           terminate_process_on_timeout(t) \/ kill_listener_on_timeout(t)
    PROVE  SafetyInv'
<1> USE SessionAssumption
<1>1. timers' = [timers EXCEPT ![t] = "expired"]
  BY DEF terminate_process_on_timeout, kill_listener_on_timeout
<1>2. timers' \in [Timers -> {"free", "auth", "listen", "expired"}]
  BY <1>1 DEF SafetyInv, TypeOK
<1>3. CASE terminate_process_on_timeout(t)
  <2>1. TimerSafety' /\ ListenerTimed'
    BY <1>1, <1>3 DEF terminate_process_on_timeout, TimerSafety, ListenerTimed,
                      SafetyInv, TypeOK
  <2>2. ctl' \in CtlType
    BY <1>3, ControlType DEF terminate_process_on_timeout, SafetyInv, TypeOK
  <2> QED BY <1>2, <1>3, <2>1, <2>2, TimersSafe
          DEF terminate_process_on_timeout, AuthGate, SafetyInv, TypeOK
<1>4. CASE kill_listener_on_timeout(t)
  <2>1. TimerSafety' /\ ListenerTimed'
    BY <1>1, <1>4 DEF kill_listener_on_timeout, TimerSafety, ListenerTimed,
                      SafetyInv, TypeOK
  <2> QED BY <1>2, <1>4, <2>1, TimersSafe
          DEF kill_listener_on_timeout, SafetyInv, TypeOK
<1> QED BY <1>3, <1>4

-----------------------------------------------------------------------------
(* The data connection                                                     *)

(* A data connection is accepted and the listener closed.                  *)
LEMMA AcceptSafe ==
    ASSUME SafetyInv, NEW b \in Bevs, data_connection_accept_cb(b)
    PROVE  SafetyInv'
<1> USE SessionAssumption
<1>1. authenticated
  BY DEF data_connection_accept_cb, AuthGate, SafetyInv
<1>2. bevs' \in [Bevs -> BevType] /\ bevs'[b].open
  <2> DEFINE r == [ClosedBev EXCEPT !.open = TRUE,
                                    !.tls = data_tls_required,
                                    !.connected = ~data_tls_required,
                                    !.kick = ~data_tls_required]
  <2>1. ASSUME NEW p \in BOOLEAN, NEW q \in BOOLEAN
        PROVE  /\ [ClosedBev EXCEPT !.open = TRUE, !.tls = p,
                                    !.connected = q, !.kick = q] \in BevType
               /\ [ClosedBev EXCEPT !.open = TRUE, !.tls = p,
                                    !.connected = q, !.kick = q].open
    <3>1. ClosedBev \in BevType
      BY DEF ClosedBev, BevType
    <3>2. ASSUME NEW s \in BevType
          PROVE  /\ [s EXCEPT !.open = TRUE, !.tls = p,
                              !.connected = q, !.kick = q] \in BevType
                 /\ [s EXCEPT !.open = TRUE, !.tls = p,
                              !.connected = q, !.kick = q].open
      BY DEF BevType
    <3> QED BY <3>1, <3>2
  <2>2. r \in BevType /\ r.open
    BY <2>1 DEF SafetyInv, TypeOK
  <2>3. bevs' = [bevs EXCEPT ![b] = r] /\ bevs \in [Bevs -> BevType]
    BY DEF data_connection_accept_cb, SafetyInv, TypeOK
  <2> HIDE DEF r
  <2> QED BY <2>2, <2>3
<1>3. data' \in DataType /\ data'.bev = b
  <2>1. ASSUME NEW p \in BOOLEAN
        PROVE  /\ [data EXCEPT !.bev = b, !.active = p] \in DataType
               /\ [data EXCEPT !.bev = b, !.active = p].bev = b
    BY DEF DataType, SafetyInv, TypeOK
  <2> QED BY <2>1 DEF data_connection_accept_cb, SafetyInv, TypeOK
<1>4. NothingStale' /\ CallbacksEquipped'
  <2>1. /\ data'.read_cb = data.read_cb
        /\ data'.write_cb = data.write_cb
        /\ data'.tls_cb = data.tls_cb
        /\ data'.eof_cb = data.eof_cb
        /\ data'.stream = data.stream
        /\ data'.upload_fd = data.upload_fd
    BY DEF data_connection_accept_cb, DataType, SafetyInv, TypeOK
  <2> QED BY <1>2, <1>3, <2>1 DEF NothingStale, CallbacksEquipped, SafetyInv
<1>5. TimerSafety' /\ ListenerTimed' /\ AuthGate'
  BY <1>1 DEF data_connection_accept_cb, TimerSafety, ListenerTimed, AuthGate
<1>6. TypeOK'
  BY <1>2, <1>3 DEF data_connection_accept_cb, SafetyInv, TypeOK
<1> QED BY <1>4, <1>5, <1>6 DEF SafetyInv

(* The data handshake completes: the callback of LIST or STOR runs.        *)
LEMMA ConnectedSafe ==
    ASSUME SafetyInv, NEW b \in Bevs, DataConnected(b)
    PROVE  SafetyInv'
<1> DEFINE d == [data EXCEPT !.active = TRUE]
           bs == [bevs EXCEPT ![b].connected = TRUE]
<1>1. /\ d \in DataType
      /\ d.bev = data.bev
      /\ d.read_cb = data.read_cb
      /\ d.write_cb = data.write_cb
      /\ d.tls_cb = data.tls_cb
      /\ d.eof_cb = data.eof_cb
      /\ d.stream = data.stream
      /\ d.upload_fd = data.upload_fd
  BY DEF DataType, SafetyInv, TypeOK
<1>2. bs \in [Bevs -> BevType] /\ \A c \in Bevs : bs[c].open = bevs[c].open
  <2>1. ASSUME NEW r \in BevType
        PROVE  /\ [r EXCEPT !.connected = TRUE] \in BevType
               /\ [r EXCEPT !.connected = TRUE].open = r.open
    BY DEF BevType
  <2>2. bevs \in [Bevs -> BevType]
    BY DEF SafetyInv, TypeOK
  <2> QED BY <2>1, <2>2
<1>3. data.bev # Nil => data.bev \in Bevs /\ bs[data.bev].open
  BY <1>2 DEF DataType, NothingStale, SafetyInv, TypeOK
<1>4. CASE /\ data' = d
           /\ bevs' = bs
           /\ UNCHANGED <<proc, ctl, control_write_cb, reply>>
  <2> HIDE DEF d, bs
  <2>1. NothingStale' /\ CallbacksEquipped'
    BY <1>1, <1>3, <1>4 DEF NothingStale, CallbacksEquipped, SafetyInv
  <2> QED BY <1>1, <1>2, <1>4, <2>1, DataSafe DEF DataConnected, SafetyInv, TypeOK
<1>5. CASE /\ data.tls_cb = "stor"
           /\ data' = [d EXCEPT !.read_cb = "on_stor_read"]
           /\ bevs' = bs
           /\ UNCHANGED <<proc, ctl, control_write_cb, reply>>
  <2> HIDE DEF d, bs
  <2>1. /\ data' \in DataType
        /\ data'.bev = d.bev
        /\ data'.write_cb = d.write_cb
        /\ data'.tls_cb = d.tls_cb
        /\ data'.eof_cb = d.eof_cb
        /\ data'.stream = d.stream
        /\ data'.upload_fd = d.upload_fd
    BY <1>1, <1>5 DEF DataType
  <2>2. data.bev # Nil /\ data.upload_fd = "file"
    BY <1>5 DEF NothingStale, CallbacksEquipped, SafetyInv
  <2>3. NothingStale' /\ CallbacksEquipped'
    BY <1>1, <1>3, <1>5, <2>1, <2>2
       DEF NothingStale, CallbacksEquipped, SafetyInv
  <2> QED BY <1>1, <1>2, <1>5, <2>1, <2>3, DataSafe
          DEF DataConnected, SafetyInv, TypeOK
<1>6. CASE /\ data' = close_data_connection(d)
           /\ bevs' = bufferevent_free(bs, d)
           /\ UNCHANGED <<proc, ctl, control_write_cb, reply>>
  <2> HIDE DEF d, bs
  <2>1. data' = close_data_connection(data)
    BY <1>1, <1>6 DEF close_data_connection
  <2>2. bevs' = bufferevent_free(bs, data)
    BY <1>1, <1>6 DEF bufferevent_free, Buffered
  <2> QED BY <1>2, <1>6, <2>1, <2>2, CloseSafe, DataSafe
          DEF DataConnected, SafetyInv, TypeOK
<1>7. CASE data.tls_cb = "list" /\ send_list_command_output(d, bs, ctl)
  <2> HIDE DEF d, bs
  <2>1. data.bev # Nil
    BY <1>7 DEF NothingStale, SafetyInv
  <2>2. ctl \in CtlType
    BY DEF SafetyInv, TypeOK
  <2>3. /\ d.write_cb = "send_next_chunk" => d.stream # "NULL"
        /\ d.read_cb # "NULL" \/ d.eof_cb # "NULL" \/ d.tls_cb = "stor"
              => d.upload_fd = "file"
    BY <1>1 DEF CallbacksEquipped, SafetyInv
  <2>4. UNCHANGED <<authenticated, timers, timeout_event, pasv_listener,
                    data_tls_required>>
    BY DEF DataConnected
  <2> QED BY <1>1, <1>2, <1>3, <1>7, <2>1, <2>2, <2>3, <2>4, ListOutputSafe
<1> QED BY <1>4, <1>5, <1>6, <1>7 DEF DataConnected

(* Data output reaches the kernel.                                         *)
LEMMA WrittenSafe ==
    ASSUME SafetyInv, NEW b \in Bevs, DataWritten(b)
    PROVE  SafetyInv'
<1>1. bevs \in [Bevs -> BevType]
  BY DEF SafetyInv, TypeOK
<1>2. PICK o \in {"empty", "low"} :
          bevs' = [bevs EXCEPT ![b].out = o,
                               ![b].kick = FALSE,
                               ![b].wr = @ \/ o = "empty" \/ bevs[b].low]
  BY Zenon DEF DataWritten
<1>3. ASSUME NEW r \in BevType, NEW w \in BOOLEAN
      PROVE  /\ [r EXCEPT !.out = o, !.kick = FALSE, !.wr = w] \in BevType
             /\ [r EXCEPT !.out = o, !.kick = FALSE, !.wr = w].open = r.open
  BY DEF BevType
<1> DEFINE w == bevs[b].wr \/ o = "empty" \/ bevs[b].low
           r == [bevs[b] EXCEPT !.out = o, !.kick = FALSE, !.wr = w]
<1>4. bevs' = [bevs EXCEPT ![b] = r]
  BY <1>1, <1>2
<1>5. r \in BevType /\ r.open = bevs[b].open
  BY <1>1, <1>3
<1> HIDE DEF r
<1>6. bevs' \in [Bevs -> BevType] /\ \A c \in Bevs : bevs'[c].open = bevs[c].open
  BY <1>1, <1>4, <1>5
<1>7. UNCHANGED <<proc, authenticated, ctl, control_write_cb, timers,
                  timeout_event, pasv_listener, data_tls_required, data, reply>>
  BY DEF DataWritten
<1>8. NothingStale' /\ CallbacksEquipped'
  BY <1>6, <1>7 DEF NothingStale, CallbacksEquipped, DataType, SafetyInv, TypeOK
<1> QED BY <1>6, <1>7, <1>8, DataSafe DEF SafetyInv, TypeOK

(* The write callbacks of listings and downloads.                          *)
LEMMA WriteCbSafe ==
    ASSUME SafetyInv, NEW b \in Bevs, data_connection_write_cb(b)
    PROVE  SafetyInv'
<1> DEFINE bs == [bevs EXCEPT ![b].wr = FALSE]
<1>1. bs \in [Bevs -> BevType] /\ \A c \in Bevs : bs[c].open = bevs[c].open
  <2>1. ASSUME NEW r \in BevType
        PROVE  /\ [r EXCEPT !.wr = FALSE] \in BevType
               /\ [r EXCEPT !.wr = FALSE].open = r.open
    BY DEF BevType
  <2>2. bevs \in [Bevs -> BevType]
    BY DEF SafetyInv, TypeOK
  <2> QED BY <2>1, <2>2
<1>2. UNCHANGED <<proc, authenticated, timers, timeout_event, pasv_listener,
                  data_tls_required>>
  BY DEF data_connection_write_cb
<1>3. data \in DataType /\ data.bev \in Bevs \cup {Nil}
  BY DEF DataType, SafetyInv, TypeOK
<1>4. CASE bevs' = bs /\ UNCHANGED <<control_write_cb, ctl, data, reply>>
  <2> HIDE DEF bs
  <2>1. NothingStale' /\ CallbacksEquipped'
    BY <1>1, <1>3, <1>4 DEF NothingStale, CallbacksEquipped, SafetyInv
  <2> QED BY <1>1, <1>2, <1>4, <2>1, DataSafe DEF SafetyInv, TypeOK
<1>5. CASE ConfirmThenClose(bs)
  <2> HIDE DEF bs
  <2>1. /\ bevs' \in [Bevs -> BevType]
        /\ \A c \in Bevs : bevs'[c].open = bevs[c].open
    BY <1>1, <1>3, <1>5, AckedType DEF ConfirmThenClose
  <2>2. NothingStale' /\ CallbacksEquipped'
    BY <1>3, <1>5, <2>1
       DEF ConfirmThenClose, NothingStale, CallbacksEquipped, SafetyInv
  <2>3. ctl' \in CtlType
    BY <1>5, ControlType DEF ConfirmThenClose, SafetyInv, TypeOK
  <2> QED BY <1>2, <1>3, <1>5, <2>1, <2>2, <2>3, DataSafe
          DEF ConfirmThenClose, SafetyInv, TypeOK
<1>6. CASE /\ data.write_cb = "send_next_chunk"
           /\ send_next_chunk(data, bs, b, FALSE)
           /\ UNCHANGED <<control_write_cb, ctl, reply>>
  <2> HIDE DEF bs
  <2>1. data.bev # Nil /\ data.stream # "NULL"
    BY <1>6 DEF NothingStale, CallbacksEquipped, SafetyInv
  <2>2. /\ data' \in DataType
        /\ bevs' \in [Bevs -> BevType]
        /\ \A c \in Bevs : bevs'[c].open = bs[c].open
        /\ data'.stream # "NULL"
        /\ data'.bev = data.bev
        /\ data'.read_cb = data.read_cb
        /\ data'.eof_cb = data.eof_cb
        /\ data'.tls_cb = data.tls_cb
        /\ data'.upload_fd = data.upload_fd
    BY <1>1, <1>3, <1>6, <2>1, ChunkFacts
  <2>3. NothingStale' /\ CallbacksEquipped'
    BY <1>1, <1>3, <2>1, <2>2 DEF NothingStale, CallbacksEquipped, SafetyInv
  <2> QED BY <1>2, <1>6, <2>2, <2>3, DataSafe DEF SafetyInv, TypeOK
<1> QED BY <1>4, <1>5, <1>6
        DEF data_connection_write_cb, download_completion_on_plain_connection_cb

(* on_stor_read.                                                           *)
LEMMA ReadCbSafe ==
    ASSUME SafetyInv, NEW b \in Bevs, data_connection_read_cb(b)
    PROVE  SafetyInv'
<1>1. PICK x \in BOOLEAN : bevs' = [bevs EXCEPT ![b].in = x]
  BY DEF data_connection_read_cb
<1>2. bevs' \in [Bevs -> BevType] /\ \A c \in Bevs : bevs'[c].open = bevs[c].open
  <2>1. ASSUME NEW r \in BevType
        PROVE  /\ [r EXCEPT !.in = x] \in BevType
               /\ [r EXCEPT !.in = x].open = r.open
    BY DEF BevType
  <2>2. bevs \in [Bevs -> BevType]
    BY DEF SafetyInv, TypeOK
  <2> QED BY <1>1, <2>1, <2>2
<1>3. NothingStale' /\ CallbacksEquipped'
  BY <1>2 DEF data_connection_read_cb, NothingStale, CallbacksEquipped,
              DataType, SafetyInv, TypeOK
<1> QED BY <1>2, <1>3, DataSafe DEF data_connection_read_cb, SafetyInv, TypeOK

(* The end or the failure of a data connection.                            *)
LEMMA EventSafe ==
    ASSUME SafetyInv, NEW b \in Bevs, DataEof(b) \/ DataError(b)
    PROVE  SafetyInv'
<1>1. ASSUME NEW bs \in [Bevs -> BevType], CloseAfterEvent(b, bs),
             ctl' \in CtlType,
             reply' \in {"done", "prelim", "dropped"},
             proc' = proc
      PROVE  SafetyInv'
  <2>1. [bs EXCEPT ![b].eof = TRUE] \in [Bevs -> BevType]
    <3>1. ASSUME NEW r \in BevType
          PROVE  [r EXCEPT !.eof = TRUE] \in BevType
      BY DEF BevType
    <3> QED BY <3>1
  <2>2. UNCHANGED <<authenticated, control_write_cb, timers, timeout_event,
                    pasv_listener, data_tls_required>>
    BY DEF DataEof, DataError
  <2> QED BY <1>1, <2>1, <2>2, CloseSafe, DataSafe
          DEF CloseAfterEvent, SafetyInv, TypeOK
<1>2. CASE CloseAfterEvent(b, bevs) /\ UNCHANGED <<proc, ctl, reply>>
  BY <1>1, <1>2 DEF SafetyInv, TypeOK
<1>3. CASE DataEof(b) /\ data.eof_cb # "NULL" /\ on_eof_event_cb(b)
  <2>1. data.bev \in Bevs
    BY <1>3 DEF NothingStale, DataType, SafetyInv, TypeOK
  <2>2. CASE proc' = "spinning" /\ UNCHANGED <<data, bevs, ctl, reply>>
    BY <1>3, <2>2, ReplySafe DEF DataEof, SafetyInv, TypeOK
  <2>3. CASE /\ CloseAfterEvent(b, Acked([bevs EXCEPT ![data.bev].in = FALSE],
                                         data.bev))
             /\ ctl' = send_control_message(ctl)
             /\ reply' = "done"
             /\ UNCHANGED proc
    <3>1. [bevs EXCEPT ![data.bev].in = FALSE] \in [Bevs -> BevType]
      <4>1. ASSUME NEW r \in BevType
            PROVE  [r EXCEPT !.in = FALSE] \in BevType
        BY DEF BevType
      <4> QED BY <4>1 DEF SafetyInv, TypeOK
    <3>2. Acked([bevs EXCEPT ![data.bev].in = FALSE], data.bev)
             \in [Bevs -> BevType]
      BY <2>1, <3>1, AckedType
    <3>3. ctl' \in CtlType
      BY <2>3, ControlType DEF SafetyInv, TypeOK
    <3> QED BY <1>1, <2>3, <3>2, <3>3
  <2> QED BY <1>3, <2>2, <2>3 DEF on_eof_event_cb
<1> QED BY <1>2, <1>3 DEF DataEof, DataError

-----------------------------------------------------------------------------
(* A broken data connection ends the process and changes nothing else.     *)
LEMMA BrokenSafe ==
    ASSUME SafetyInv, NEW b \in Bevs, DataBroken(b)
    PROVE  SafetyInv'
  BY ReplySafe DEF DataBroken, SafetyInv, TypeOK

(* Every step preserves the invariant.                                     *)
LEMMA NextSafe ==
    ASSUME SafetyInv, [Next]_vars
    PROVE  SafetyInv'
<1>1. CASE Next
  BY <1>1, CommandSafe, ControlSafe, OnWriteSafe, TimeoutSafe, AcceptSafe,
     ConnectedSafe, WrittenSafe, WriteCbSafe, ReadCbSafe, EventSafe,
     BrokenSafe DEF Next
<1>2. CASE UNCHANGED vars
  BY <1>2, ReplySafe DEF vars, SafetyInv, TypeOK
<1> QED BY <1>1, <1>2

(* The session keeps every pointer it will use valid and serves no data    *)
(* before the login, for every environment and any number of timers and    *)
(* data connections.                                                       *)
THEOREM SessionSafe == Spec => []SafetyInv
  BY InitSafe, NextSafe, PTL DEF Spec

(* Type correctness.                                                       *)
THEOREM SessionTyped == Spec => []TypeOK
<1>1. SafetyInv => TypeOK
  BY DEF SafetyInv
<1> QED BY <1>1, SessionSafe, PTL

(* PASS and data_connection_accept_cb never free timeout_event twice.      *)
THEOREM NoDoubleFree == Spec => []TimerSafety
<1>1. SafetyInv => TimerSafety
  BY DEF SafetyInv
<1> QED BY <1>1, SessionSafe, PTL

(* An open passive listener always has its own timer pending.              *)
THEOREM ListenersAreTimed == Spec => []ListenerTimed
<1>1. SafetyInv => ListenerTimed
  BY DEF SafetyInv
<1> QED BY <1>1, SessionSafe, PTL

(* No listener and no data connection before the login.                    *)
THEOREM LoginFirst == Spec => []AuthGate
<1>1. SafetyInv => AuthGate
  BY DEF SafetyInv
<1> QED BY <1>1, SessionSafe, PTL

(* No freed bufferevent and no callback of a finished transfer is used.    *)
THEOREM NoStaleCallback == Spec => []NothingStale
<1>1. SafetyInv => NothingStale
  BY DEF SafetyInv
<1> QED BY <1>1, SessionSafe, PTL

(* A callback of a transfer finds the stream or the file it uses.          *)
THEOREM CallbacksFindTheirs == Spec => []CallbacksEquipped
<1>1. SafetyInv => CallbacksEquipped
  BY DEF SafetyInv
<1> QED BY <1>1, SessionSafe, PTL

=============================================================================
