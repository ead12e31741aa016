------------------------- MODULE SessionClientProofs -------------------------
(***************************************************************************)
(* What a session owes to a client that behaves: nothing is leaked as long *)
(* as the client opens one data connection at a time, and for a client     *)
(* that also waits for replies every upload and every plain download that  *)
(* is confirmed is complete.                                               *)
(***************************************************************************)
EXTENDS SessionProofs

(* The data connection in use is the only one, and data_active tells       *)
(* whether it is established.                                              *)
Owned == NoLeak /\ ActiveFaithful

(* Two states of the bufferevents that agree on which are established.     *)
SameShape(bs, cs) ==
    \A b \in Bevs : /\ bs[b].open = cs[b].open
                    /\ bs[b].connected = cs[b].connected

LEMMA Typed ==
    ASSUME SafetyInv
    PROVE  /\ data \in DataType
           /\ bevs \in [Bevs -> BevType]
           /\ ctl \in CtlType
           /\ data.bev \in Bevs \cup {Nil}
           /\ data.active \in BOOLEAN
           /\ Nil \notin Bevs
           /\ \A b \in Bevs : bevs[b] \in BevType
  BY SessionAssumption DEF SafetyInv, TypeOK, DataType

(* What does not touch the data connection keeps it owned.                 *)
LEMMA OwnedKept ==
    ASSUME SafetyInv, Owned,
           data'.bev = data.bev, data'.active = data.active,
           SameShape(bevs', bevs)
    PROVE  Owned'
<1>1. NoLeak'
  BY DEF Owned, NoLeak, SameShape
<1>2. data.bev # Nil => data.bev \in Bevs
  BY Typed
<1>3. ActiveFaithful'
  BY <1>2 DEF Owned, ActiveFaithful, SameShape
<1> QED BY <1>1, <1>3 DEF Owned

(* Closing leaves no bufferevent open.                                     *)
LEMMA OwnedClosed ==
    ASSUME SafetyInv, Owned,
           NEW bs \in [Bevs -> BevType], \A b \in Bevs : bs[b].open = bevs[b].open,
           data' = close_data_connection(data),
           bevs' = bufferevent_free(bs, data)
    PROVE  Owned' /\ \A b \in Bevs : ~bevs'[b].open
<1>1. data'.bev = Nil /\ ~data'.active
  BY DEF close_data_connection
<1>2. \A b \in Bevs : ~bevs'[b].open
  <2>1. CASE data.bev = Nil
    BY <2>1, Typed DEF bufferevent_free, Owned, NoLeak
  <2>2. CASE data.bev # Nil
    <3>1. data.bev \in Bevs
      BY <2>2, Typed
    <3>2. \A b \in Bevs : b # data.bev => bevs'[b] = bs[b]
      BY <2>2, <3>1 DEF bufferevent_free
    <3>3. ~bevs'[data.bev].open
      BY <2>2, <3>1 DEF bufferevent_free, ClosedBev
    <3> QED BY <3>2, <3>3 DEF Owned, NoLeak
  <2> QED BY <2>1, <2>2
<1> QED BY <1>1, <1>2 DEF Owned, NoLeak, ActiveFaithful

(* Changing another field of a bufferevent keeps the shape.                *)
LEMMA AckedShape ==
    ASSUME NEW bs \in [Bevs -> BevType], NEW b \in Bevs \cup {Nil}
    PROVE  SameShape(Acked(bs, b), bs)
  BY DEF Acked, BevType, SameShape

LEMMA OutShape ==
    ASSUME NEW bs \in [Bevs -> BevType], NEW b \in Bevs, NEW o
    PROVE  SameShape([bs EXCEPT ![b].out = o], bs)
  BY DEF BevType, SameShape

LEMMA ListOutputShape ==
    ASSUME NEW d \in DataType, NEW bs \in [Bevs -> BevType], NEW c,
           d.bev \in Bevs, send_list_command_output(d, bs, c)
    PROVE  /\ data'.bev = d.bev /\ data'.active = d.active
           /\ SameShape(bevs', bs)
<1>1. \/ data' = d
      \/ data' = [d EXCEPT !.tls_cb = "close_data_connection_on_writecb"]
      \/ data' = [d EXCEPT !.write_cb = "close_on_listcb"]
  BY DEF send_list_command_output
<1>2. bevs' = bs \/ bevs' = Acked(bs, d.bev) \/ bevs' = [bs EXCEPT ![d.bev].out = "high"]
  BY DEF send_list_command_output
<1>3. data'.bev = d.bev /\ data'.active = d.active
  BY <1>1 DEF DataType
<1>4. SameShape(bevs', bs)
  <2>1. CASE bevs' = bs
    BY <2>1 DEF SameShape
  <2>2. CASE bevs' = Acked(bs, d.bev)
    BY <2>2, AckedShape
  <2>3. CASE bevs' = [bs EXCEPT ![d.bev].out = "high"]
    BY <2>3, OutShape
  <2> QED BY <1>2, <2>1, <2>2, <2>3
<1> QED BY <1>3, <1>4

LEMMA ChunkShape ==
    ASSUME NEW d \in DataType, NEW bs \in [Bevs -> BevType], NEW b \in Bevs,
           NEW empty \in BOOLEAN, send_next_chunk(d, bs, b, empty)
    PROVE  /\ data'.bev = d.bev /\ data'.active = d.active
           /\ SameShape(bevs', bs)
<1>1. \/ data' = d
      \/ data' = [d EXCEPT !.write_cb = "close_on_retrcb"]
      \/ data' = [d EXCEPT !.write_cb = "close_on_retrcb", !.stream = "closed"]
      \/ data' = [d EXCEPT !.stream = "closed"]
  BY DEF send_next_chunk
<1>2. \E o \in {"empty", "low", "high"} :
          bevs' = bs \/ bevs' = [bs EXCEPT ![b].out = o]
  BY DEF send_next_chunk
<1>3. data'.bev = d.bev /\ data'.active = d.active
  BY <1>1 DEF DataType
<1>4. SameShape(bevs', bs)
  <2>1. CASE bevs' = bs
    BY <2>1 DEF SameShape
  <2>2. ASSUME NEW o, bevs' = [bs EXCEPT ![b].out = o]
        PROVE  SameShape(bevs', bs)
    BY <2>2, OutShape
  <2> QED BY <1>2, <2>1, <2>2
<1> QED BY <1>3, <1>4

-----------------------------------------------------------------------------
LEMMA SameData ==
    ASSUME SafetyInv, Owned, UNCHANGED <<data, bevs>>
    PROVE  Owned'
  BY OwnedKept DEF SameShape

LEMMA ListOwned ==
    ASSUME SafetyInv, Owned, handle_list_command
    PROVE  Owned'
<1>1. CASE ReplyThen("close_data_connection_on_writecb") \/ SimpleReply
  BY <1>1, SameData DEF ReplyThen, SimpleReply
<1>2. CASE data' = [data EXCEPT !.tls_cb = "list"] /\ UNCHANGED bevs
  <2>1. data'.bev = data.bev /\ data'.active = data.active
    BY <1>2, Typed DEF DataType
  <2> QED BY <1>2, <2>1, OwnedKept DEF SameShape
<1>3. CASE data.bev # Nil /\ send_list_command_output(data, bevs, send_control_message(ctl))
  BY <1>3, Typed, ListOutputShape, OwnedKept
<1> QED BY <1>1, <1>2, <1>3 DEF handle_list_command

LEMMA RetrOwned ==
    ASSUME SafetyInv, Owned, cftp_send_file
    PROVE  Owned'
<1>1. CASE UNCHANGED <<data, bevs>>
  BY <1>1, SameData
<1>2. ASSUME data.bev # Nil, NEW empty \in BOOLEAN,
             send_next_chunk([data EXCEPT !.stream = "open",
                                          !.write_cb = "send_next_chunk"],
                             [bevs EXCEPT ![data.bev].low = TRUE],
                             data.bev, empty)
      PROVE  Owned'
  <2> DEFINE d == [data EXCEPT !.stream = "open", !.write_cb = "send_next_chunk"]
             bs == [bevs EXCEPT ![data.bev].low = TRUE]
  <2>1. data.bev \in Bevs
    BY <1>2, Typed
  <2>2. d \in DataType /\ d.bev = data.bev /\ d.active = data.active
    BY Typed DEF DataType
  <2>3. bs \in [Bevs -> BevType] /\ SameShape(bs, bevs)
    <3>1. ASSUME NEW r \in BevType
          PROVE  /\ [r EXCEPT !.low = TRUE] \in BevType
                 /\ [r EXCEPT !.low = TRUE].open = r.open
                 /\ [r EXCEPT !.low = TRUE].connected = r.connected
      BY DEF BevType
    <3> QED BY <2>1, <3>1, Typed DEF SameShape
  <2>4. send_next_chunk(d, bs, data.bev, empty)
    BY <1>2
  <2> HIDE DEF d, bs
  <2>5. data'.bev = d.bev /\ data'.active = d.active /\ SameShape(bevs', bs)
    BY <2>1, <2>2, <2>3, <2>4, ChunkShape
  <2> QED BY <2>2, <2>3, <2>5, OwnedKept DEF SameShape
<1>3. ASSUME data.bev # Nil,
             data' = [data EXCEPT
               !.write_cb = "download_completion_on_plain_connection_cb"],
             bevs' = bevs \/ bevs' = [bevs EXCEPT ![data.bev].out = "high"]
      PROVE  Owned'
  <2>1. data'.bev = data.bev /\ data'.active = data.active /\ data.bev \in Bevs
    BY <1>3, Typed DEF DataType
  <2>2. CASE bevs' = bevs
    BY <2>1, <2>2, OwnedKept DEF SameShape
  <2>3. CASE bevs' = [bevs EXCEPT ![data.bev].out = "high"]
    <3>1. SameShape(bevs', bevs)
      BY <2>1, <2>3, OutShape, Typed
    <3> QED BY <2>1, <3>1, OwnedKept
  <2> QED BY <1>3, <2>2, <2>3
<1>4. CASE ftp_send_file_with_evbuffer
  <2>1. {FALSE} \cup {"empty" \in Env} \subseteq BOOLEAN
    OBVIOUS
  <2> QED BY <1>1, <1>2, <1>4, <2>1, Zenon DEF ftp_send_file_with_evbuffer
<1>5. CASE ftp_send_file_plain
  BY <1>1, <1>3, <1>5 DEF ftp_send_file_plain
<1> QED BY <1>4, <1>5 DEF cftp_send_file

LEMMA StorOwned ==
    ASSUME SafetyInv, Owned, cftp_recv_file_with_evbuffer
    PROVE  Owned'
<1>1. CASE UNCHANGED <<data, bevs>>
  BY <1>1, SameData
<1>2. CASE /\ \/ data' = [data EXCEPT !.upload_fd = "file",
                                      !.eof_cb = "on_eof_event_cb",
                                      !.tls_cb = "stor"]
              \/ data' = [data EXCEPT !.upload_fd = "file",
                                      !.eof_cb = "on_eof_event_cb",
                                      !.read_cb = "on_stor_read"]
           /\ UNCHANGED bevs
  <2>1. data'.bev = data.bev /\ data'.active = data.active
    BY <1>2, Typed DEF DataType
  <2> QED BY <1>2, <2>1, OwnedKept DEF SameShape
<1> QED BY <1>1, <1>2 DEF cftp_recv_file_with_evbuffer, SimpleReply, ReplyThen

LEMMA AborOwned ==
    ASSUME SafetyInv, Owned, cftp_abor_authenticated_action
    PROVE  Owned'
  BY SameData, OwnedClosed, Typed DEF cftp_abor_authenticated_action

LEMMA CommandOwned ==
    ASSUME SafetyInv, Owned, Command
    PROVE  Owned'
<1>1. CASE UNCHANGED <<data, bevs>>
  BY <1>1, SameData
<1> QED BY <1>1, ListOwned, RetrOwned, StorOwned, AborOwned
        DEF Command, execute_ftp_command, SimpleReply, ReplyThen, upgrade_to_tls,
            cftp_prot_action, cftp_authenticated, cftp_non_authenticated,
            cftp_user_authenticated, cftp_pass_authenticated, FileReply,
            data_connection_listener_config

(* The only open data connection is the new one.                           *)
LEMMA AcceptOwned ==
    ASSUME SafetyInv, Owned, "multi" \notin Env,
           NEW b \in Bevs, data_connection_accept_cb(b)
    PROVE  Owned'
<1> DEFINE new == [ClosedBev EXCEPT !.open = TRUE,
                                    !.tls = data_tls_required,
                                    !.connected = ~data_tls_required,
                                    !.kick = ~data_tls_required]
<1>1. \A c \in Bevs : ~bevs[c].open
  BY DEF data_connection_accept_cb
<1>2. data'.bev = b /\ data'.active = ~data_tls_required
  BY Typed DEF data_connection_accept_cb, DataType
<1>3. new.open = TRUE /\ new.connected = ~data_tls_required
  BY DEF ClosedBev
<1>4. bevs' = [bevs EXCEPT ![b] = new]
  BY DEF data_connection_accept_cb
<1> HIDE DEF new
<1>5. bevs'[b] = new /\ \A c \in Bevs : c # b => bevs'[c] = bevs[c]
  BY <1>4, Typed
<1>6. b # Nil
  BY Typed
<1> QED BY <1>1, <1>2, <1>3, <1>5, <1>6 DEF Owned, NoLeak, ActiveFaithful

(* The handshake that completes is that of the data connection in use.     *)
LEMMA ConnectedOwned ==
    ASSUME SafetyInv, Owned, NEW b \in Bevs, DataConnected(b)
    PROVE  Owned'
<1> DEFINE d == [data EXCEPT !.active = TRUE]
           bs == [bevs EXCEPT ![b].connected = TRUE]
<1>1. data.bev = b /\ b # Nil
  BY Typed DEF DataConnected, Owned, NoLeak
<1>2. /\ d \in DataType /\ d.bev = data.bev /\ d.active
      /\ d.upload_fd = data.upload_fd /\ d.stream = data.stream
      /\ d.write_cb = data.write_cb
  BY Typed DEF DataType
<1>3. /\ bs \in [Bevs -> BevType]
      /\ \A c \in Bevs : bs[c].open = bevs[c].open
      /\ bs[b].connected
  <2>1. ASSUME NEW r \in BevType
        PROVE  /\ [r EXCEPT !.connected = TRUE] \in BevType
               /\ [r EXCEPT !.connected = TRUE].open = r.open
               /\ [r EXCEPT !.connected = TRUE].connected
    BY DEF BevType
  <2> QED BY <2>1, Typed
<1>4. ASSUME data'.bev = d.bev, data'.active = d.active, SameShape(bevs', bs)
      PROVE  Owned'
  <2> HIDE DEF d, bs
  <2> QED BY <1>1, <1>2, <1>3, <1>4 DEF Owned, NoLeak, ActiveFaithful, SameShape
<1>5. CASE data' = d /\ bevs' = bs
  <2> HIDE DEF d, bs
  <2> QED BY <1>4, <1>5 DEF SameShape
<1>6. CASE data' = [d EXCEPT !.read_cb = "on_stor_read"] /\ bevs' = bs
  <2> HIDE DEF d, bs
  <2>1. data'.bev = d.bev /\ data'.active = d.active
    BY <1>2, <1>6 DEF DataType
  <2> QED BY <1>4, <1>6, <2>1 DEF SameShape
<1>7. CASE data' = close_data_connection(d) /\ bevs' = bufferevent_free(bs, d)
  <2> HIDE DEF d, bs
  <2>1. data' = close_data_connection(data)
    BY <1>2, <1>7 DEF close_data_connection
  <2>2. bevs' = bufferevent_free(bs, data)
    BY <1>2, <1>7 DEF bufferevent_free, Buffered
  <2> QED BY <1>3, <2>1, <2>2, OwnedClosed
<1>8. CASE send_list_command_output(d, bs, ctl)
  <2> HIDE DEF d, bs
  <2> QED BY <1>1, <1>2, <1>3, <1>4, <1>8, ListOutputShape
<1> QED BY <1>5, <1>6, <1>7, <1>8 DEF DataConnected

LEMMA WrittenOwned ==
    ASSUME SafetyInv, Owned, NEW b \in Bevs, DataWritten(b)
    PROVE  Owned'
<1>1. PICK o \in {"empty", "low"} :
         bevs' = [bevs EXCEPT ![b].out = o, ![b].kick = FALSE,
                              ![b].wr = @ \/ o = "empty" \/ bevs[b].low]
  BY DEF DataWritten
<1>2. SameShape(bevs', bevs)
  <2>1. ASSUME NEW r \in BevType, NEW w
        PROVE  LET q == [r EXCEPT !.out = o, !.kick = FALSE, !.wr = w]
               IN  q.open = r.open /\ q.connected = r.connected
    BY DEF BevType
  <2>2. bevs' = [bevs EXCEPT ![b] = [bevs[b] EXCEPT !.out = o, !.kick = FALSE,
                            !.wr = @ \/ o = "empty" \/ bevs[b].low]]
    BY <1>1
  <2> QED BY <2>1, <2>2, Typed DEF SameShape
<1> QED BY <1>2, OwnedKept DEF DataWritten

LEMMA WriteCbOwned ==
    ASSUME SafetyInv, Owned, NEW b \in Bevs, data_connection_write_cb(b)
    PROVE  Owned'
<1> DEFINE bs == [bevs EXCEPT ![b].wr = FALSE]
<1>1. bs \in [Bevs -> BevType] /\ SameShape(bs, bevs)
  <2>1. ASSUME NEW r \in BevType
        PROVE  /\ [r EXCEPT !.wr = FALSE] \in BevType
               /\ [r EXCEPT !.wr = FALSE].open = r.open
               /\ [r EXCEPT !.wr = FALSE].connected = r.connected
    BY DEF BevType
  <2> QED BY <2>1, Typed DEF SameShape
<1>2. CASE bevs' = bs /\ UNCHANGED data
  BY <1>1, <1>2, OwnedKept
<1>3. CASE bevs' = Acked(bs, data.bev) /\ UNCHANGED data
  <2> HIDE DEF bs
  <2> QED BY <1>1, <1>3, AckedShape, Typed, OwnedKept DEF SameShape
<1>4. CASE send_next_chunk(data, bs, b, FALSE)
  <2> HIDE DEF bs
  <2> QED BY <1>1, <1>4, ChunkShape, Typed, OwnedKept DEF SameShape
<1> QED BY <1>2, <1>3, <1>4
        DEF data_connection_write_cb, ConfirmThenClose,
            download_completion_on_plain_connection_cb

LEMMA ReadCbOwned ==
    ASSUME SafetyInv, Owned, NEW b \in Bevs, data_connection_read_cb(b)
    PROVE  Owned'
<1>1. \E x \in BOOLEAN : bevs' = [bevs EXCEPT ![b].in = x]
  BY DEF data_connection_read_cb
<1>2. SameShape(bevs', bevs)
  BY <1>1, Typed DEF SameShape, BevType
<1> QED BY <1>2, OwnedKept DEF data_connection_read_cb

LEMMA EventOwned ==
    ASSUME SafetyInv, Owned, NEW b \in Bevs, DataEof(b) \/ DataError(b)
    PROVE  Owned'
<1>1. ASSUME NEW bs \in [Bevs -> BevType], SameShape(bs, bevs),
             CloseAfterEvent(b, bs)
      PROVE  Owned'
  <2> DEFINE cs == [bs EXCEPT ![b].eof = TRUE]
  <2>1. cs \in [Bevs -> BevType] /\ \A c \in Bevs : cs[c].open = bevs[c].open
    <3>1. ASSUME NEW r \in BevType
          PROVE  /\ [r EXCEPT !.eof = TRUE] \in BevType
                 /\ [r EXCEPT !.eof = TRUE].open = r.open
      BY DEF BevType
    <3> QED BY <1>1, <3>1 DEF SameShape
  <2>2. data' = close_data_connection(data) /\ bevs' = bufferevent_free(cs, data)
    BY <1>1 DEF CloseAfterEvent
  <2> HIDE DEF cs
  <2> QED BY <2>1, <2>2, OwnedClosed
<1>2. CASE CloseAfterEvent(b, bevs)
  BY <1>1, <1>2, Typed DEF SameShape
<1>3. CASE UNCHANGED <<data, bevs>>
  BY <1>3, SameData
<1>4. CASE /\ data.bev # Nil
           /\ CloseAfterEvent(b, Acked([bevs EXCEPT ![data.bev].in = FALSE], data.bev))
  <2> DEFINE bs == [bevs EXCEPT ![data.bev].in = FALSE]
  <2>1. bs \in [Bevs -> BevType] /\ SameShape(bs, bevs)
    <3>1. ASSUME NEW r \in BevType
          PROVE  /\ [r EXCEPT !.in = FALSE] \in BevType
                 /\ [r EXCEPT !.in = FALSE].open = r.open
                 /\ [r EXCEPT !.in = FALSE].connected = r.connected
      BY DEF BevType
    <3> QED BY <3>1, Typed DEF SameShape
  <2> HIDE DEF bs
  <2>2. Acked(bs, data.bev) \in [Bevs -> BevType] /\ SameShape(Acked(bs, data.bev), bevs)
    BY <2>1, AckedType, AckedShape, Typed DEF SameShape
  <2> QED BY <1>1, <1>4, <2>2 DEF bs
<1>5. data.eof_cb # "NULL" => data.bev # Nil
  BY DEF NothingStale, SafetyInv
<1> QED BY <1>2, <1>3, <1>4, <1>5 DEF DataEof, DataError, on_eof_event_cb

LEMMA NextOwned ==
    ASSUME SafetyInv, Owned, "multi" \notin Env, [Next]_vars
    PROVE  Owned'
<1>1. CASE UNCHANGED <<data, bevs>>
  BY <1>1, SameData
<1>2. CASE on_write
  BY <1>1, <1>2, OwnedClosed, Typed DEF on_write
<1> QED BY <1>1, <1>2, CommandOwned, AcceptOwned, ConnectedOwned, WrittenOwned,
           WriteCbOwned, ReadCbOwned, EventOwned
        DEF Next, vars, ControlWritten, ControlHandshake, on_event, DataBroken,
            terminate_process_on_timeout, kill_listener_on_timeout

LEMMA InitOwned == Init => Owned
  BY DEF Init, Owned, NoLeak, ActiveFaithful, ClosedBev

LEMMA OwnedAlways ==
    ASSUME "multi" \notin Env
    PROVE  Spec => []Owned
<1>1. SafetyInv /\ Owned /\ [Next]_vars => Owned'
  BY NextOwned
<1> QED BY <1>1, InitOwned, SessionSafe, PTL DEF Spec

(* A client that opens one data connection at a time leaks none, over any  *)
(* sequence of transfers, aborts and failures: every open bufferevent is   *)
(* still known to connection_t, which can close it.                        *)
THEOREM NothingLeaks ==
    ASSUME "multi" \notin Env
    PROVE  Spec => []NoLeak
<1>1. Spec => []Owned
  BY OwnedAlways
<1> QED BY <1>1, PTL DEF Owned

(* For such a client ABOR can rely on data_active.                         *)
THEOREM ActiveIsFaithful ==
    ASSUME "multi" \notin Env
    PROVE  Spec => []ActiveFaithful
<1>1. Spec => []Owned
  BY OwnedAlways
<1> QED BY <1>1, PTL DEF Owned

-----------------------------------------------------------------------------
(* A client that waits for replies and opens one data connection at a      *)
(* time, with or without TLS.                                              *)
WaitingClient == {"pipeline", "multi"} \cap Env = {}

(* The authentication timer cannot overwrite control_write_cb any more     *)
(* once there is a data connection.                                        *)
AuthTimer ==
    \A t \in Timers : timers[t] = "auth" => ~authenticated /\ t = timeout_event

(* on_write is to close the data connection, and will run.                 *)
CloseDue ==
    /\ control_write_cb = "close_data_connection_on_writecb"
    /\ ctl.out \/ ctl.drained

(* A transfer has its callbacks only until its connection is closed, and   *)
(* one that stores a file does not send.                                   *)
Underway == reply = "prelim" \/ CloseDue

Callbacks ==
    /\ data.upload_fd = "file" => data.eof_cb # "NULL"
    /\ data.eof_cb # "NULL" => data.write_cb = "NULL" /\ data.tls_cb # "list"
    /\ data.tls_cb = "list" => data.write_cb \in {"NULL", "close_on_listcb"}
    /\ data.write_cb # "NULL" \/ data.eof_cb # "NULL" \/ data.tls_cb # "NULL"
          => Underway

(* Between the final reply and the close: only a listing or a download     *)
(* over TLS may have been confirmed with output left.                      *)
Confirmed(B) ==
    B.acks > 0 =>
        /\ CloseDue
        /\ data.eof_cb = "NULL"
        /\ \/ data.write_cb \in {"close_on_listcb", "close_on_retrcb"}
           \/ B.out = "empty" /\ data.write_cb # "send_next_chunk"

BevInv(B) ==
    /\ B.lost # "file"
    /\ ~B.open => B.out = "empty" /\ B.acks = 0
    /\ B.out # "empty" => data.write_cb # "NULL"
    /\ Confirmed(B)

ClientInv ==
    /\ AuthTimer
    /\ Callbacks
    /\ \A b \in Bevs : BevInv(bevs[b])

(* A bufferevent that differs at most by output that was written.          *)
Less(q, r) ==
    /\ q.open = r.open
    /\ q.lost = r.lost
    /\ q.acks = r.acks
    /\ q.out # "empty" => r.out # "empty"

(* Updates of one field of a bufferevent.                                  *)
LEMMA FieldTypes ==
    ASSUME NEW r \in BevType
    PROVE  r.acks \in 0..2 /\ r.open \in BOOLEAN
  BY DEF BevType

LEMMA OutFields ==
    ASSUME NEW r \in BevType, NEW o, NEW q, q = [r EXCEPT !.out = o]
    PROVE  q.open = r.open /\ q.lost = r.lost /\ q.acks = r.acks /\ q.out = o
  BY DEF BevType

LEMMA AckFields ==
    ASSUME NEW r \in BevType, NEW n, NEW q, q = [r EXCEPT !.acks = n]
    PROVE  /\ q.open = r.open /\ q.lost = r.lost /\ q.acks = n
           /\ q.out = r.out /\ q.in = r.in
  BY DEF BevType

LEMMA OtherFields ==
    ASSUME NEW r \in BevType, NEW x \in BOOLEAN, NEW q,
           \/ q = [r EXCEPT !.eof = x]
           \/ q = [r EXCEPT !.low = x]
           \/ q = [r EXCEPT !.wr = x]
           \/ q = [r EXCEPT !.connected = x]
    PROVE  q \in BevType /\ Less(q, r) /\ q.out = r.out /\ q.in = r.in
  BY DEF BevType, Less

LEMMA InFields ==
    ASSUME NEW r \in BevType, NEW x \in BOOLEAN, NEW q, q = [r EXCEPT !.in = x]
    PROVE  q \in BevType /\ Less(q, r) /\ q.out = r.out /\ q.in = x
  BY DEF BevType, Less

-----------------------------------------------------------------------------
(* Between two commands of a waiting client no transfer is under way.      *)
LEMMA Idle ==
    ASSUME SafetyInv, ClientInv, WaitingClient, ClientMaySend
    PROVE  /\ reply = "done"
           /\ data.eof_cb = "NULL"
           /\ data.upload_fd # "file"
           /\ data.write_cb = "NULL"
           /\ data.tls_cb = "NULL"
           /\ \A b \in Bevs : bevs[b].acks = 0 /\ bevs[b].out = "empty"
<1>1. reply = "done" /\ ~CloseDue
  BY DEF ClientMaySend, WaitingClient, CloseDue
<1>2. /\ data.eof_cb = "NULL" /\ data.upload_fd # "file"
      /\ data.write_cb = "NULL" /\ data.tls_cb = "NULL"
  BY <1>1 DEF ClientInv, Callbacks, Underway
<1>3. ASSUME NEW b \in Bevs
      PROVE  bevs[b].acks = 0 /\ bevs[b].out = "empty"
  <2>1. bevs[b] \in BevType /\ BevInv(bevs[b])
    BY Typed DEF ClientInv
  <2>2. bevs[b].acks \in 0..2
    BY <2>1, FieldTypes
  <2> QED BY <1>1, <1>2, <2>1, <2>2 DEF BevInv, Confirmed
<1> QED BY <1>1, <1>2, <1>3

(* A step that at most writes output, and leaves a transfer under way.     *)
LEMMA FieldsKept ==
    ASSUME ClientInv, AuthTimer',
           data'.upload_fd = data.upload_fd, data'.eof_cb = data.eof_cb,
           data'.write_cb = data.write_cb, data'.tls_cb = data.tls_cb,
           \A b \in Bevs : Less(bevs'[b], bevs[b]),
           data.write_cb # "NULL" \/ data.eof_cb # "NULL" \/ data.tls_cb # "NULL"
              => Underway',
           \A b \in Bevs : bevs[b].acks > 0 => CloseDue'
    PROVE  ClientInv'
<1>1. Callbacks'
  BY DEF ClientInv, Callbacks
<1>2. ASSUME NEW b \in Bevs
      PROVE  BevInv(bevs[b])'
  <2>1. BevInv(bevs[b]) /\ Less(bevs'[b], bevs[b])
    BY DEF ClientInv
  <2> QED BY <2>1 DEF BevInv, Confirmed, Less
<1> QED BY <1>1, <1>2 DEF ClientInv

LEMMA ClientKept ==
    ASSUME ClientInv, AuthTimer', UNCHANGED <<data, bevs>>,
           Underway => Underway', CloseDue => CloseDue'
    PROVE  ClientInv'
<1>1. \A b \in Bevs : Less(bevs'[b], bevs[b])
  BY DEF Less
<1>2. \A b \in Bevs : bevs[b].acks > 0 => CloseDue'
  BY DEF ClientInv, BevInv, Confirmed
<1>3. data.write_cb # "NULL" \/ data.eof_cb # "NULL" \/ data.tls_cb # "NULL"
         => Underway'
  BY DEF ClientInv, Callbacks
<1> QED BY <1>1, <1>2, <1>3, FieldsKept

(* A reply that leaves the data connection alone.                          *)
LEMMA IdleReply ==
    ASSUME SafetyInv, ClientInv, WaitingClient, ClientMaySend, AuthTimer',
           UNCHANGED <<data, bevs>>
    PROVE  ClientInv'
<1>1. \A b \in Bevs : Less(bevs'[b], bevs[b]) /\ ~(bevs[b].acks > 0)
  BY Idle DEF Less
<1> QED BY <1>1, Idle, FieldsKept

(* A closed bufferevent that is left alone.                                *)
LEMMA StaysClosed ==
    ASSUME NEW b \in Bevs, bevs'[b] = bevs[b], ~bevs[b].open, BevInv(bevs[b])
    PROVE  BevInv(bevs[b])'
  BY DEF BevInv, Confirmed

(* Only the data connection in use changes.                                *)
LEMMA OneChanged ==
    ASSUME Owned, ClientInv, AuthTimer', Callbacks', NEW b \in Bevs,
           data.bev = b, BevInv(bevs[b])',
           \A c \in Bevs : c # b => bevs'[c] = bevs[c]
    PROVE  ClientInv'
<1>1. \A c \in Bevs : c # b => ~bevs[c].open
  BY DEF Owned, NoLeak
<1>2. \A c \in Bevs : BevInv(bevs[c])'
  BY <1>1, StaysClosed DEF ClientInv
<1> QED BY <1>2 DEF ClientInv

(* Closing ends the transfer; no file that was confirmed is cut.           *)
LEMMA ClientClosed ==
    ASSUME SafetyInv, Owned, ClientInv, AuthTimer',
           NEW bs \in [Bevs -> BevType],
           \A b \in Bevs : b # data.bev => bs[b] = bevs[b],
           (/\ data.bev # Nil
            /\ bs[data.bev].acks > 0
            /\ data.write_cb \notin {"close_on_listcb", "close_on_retrcb"})
              => /\ bs[data.bev].out = "empty"
                 /\ bs[data.bev].in => data.upload_fd # "file",
           data' = close_data_connection(data),
           bevs' = bufferevent_free(bs, data)
    PROVE  ClientInv'
<1>1. /\ data'.write_cb = "NULL" /\ data'.eof_cb = "NULL"
      /\ data'.tls_cb = "NULL" /\ data'.upload_fd = "-1"
  BY DEF close_data_connection
<1>2. Callbacks'
  BY <1>1 DEF Callbacks
<1>3. CASE data.bev = Nil
  <2>1. \A b \in Bevs : bevs'[b] = bevs[b] /\ ~bevs[b].open
    BY <1>3, Typed DEF bufferevent_free, Owned, NoLeak
  <2> QED BY <1>2, <2>1, StaysClosed DEF ClientInv
<1>4. CASE data.bev # Nil
  <2>1. PICK b \in Bevs : b = data.bev
    BY <1>4, Typed
  <2> DEFINE l == IF bs[b].acks > 0 /\ Buffered(bs[b], data)
                  THEN Transferred(data.write_cb) ELSE "nothing"
  <2>2. bevs' = [bs EXCEPT ![b] = [ClosedBev EXCEPT !.lost = l]]
    BY <1>4, <2>1, Zenon DEF bufferevent_free
  <2>3. l # "file"
    BY <1>4, <2>1 DEF Buffered, Transferred
  <2> HIDE DEF l
  <2>4. bevs'[b] = [ClosedBev EXCEPT !.lost = l]
        /\ \A c \in Bevs : c # b => bevs'[c] = bevs[c]
    BY <2>1, <2>2
  <2>5. ~bevs'[b].open /\ bevs'[b].out = "empty" /\ bevs'[b].acks = 0
        /\ bevs'[b].lost = l
    BY <2>4 DEF ClosedBev
  <2>6. BevInv(bevs[b])'
    BY <2>3, <2>5 DEF BevInv, Confirmed
  <2> QED BY <1>2, <2>1, <2>4, <2>6, OneChanged
<1> QED BY <1>3, <1>4

(* ... in the form that ABOR, on_write, a handshake and a failure use.     *)
LEMMA ClosedAsItIs ==
    ASSUME SafetyInv, Owned, ClientInv, AuthTimer',
           NEW bs \in [Bevs -> BevType],
           \A b \in Bevs : b # data.bev => bs[b] = bevs[b],
           data.bev # Nil => Less(bs[data.bev], bevs[data.bev]),
           data' = close_data_connection(data),
           bevs' = bufferevent_free(bs, data)
    PROVE  ClientInv'
<1>1. ASSUME data.bev # Nil, bs[data.bev].acks > 0,
             data.write_cb \notin {"close_on_listcb", "close_on_retrcb"}
      PROVE  bs[data.bev].out = "empty" /\ data.upload_fd # "file"
  <2>1. data.bev \in Bevs /\ BevInv(bevs[data.bev])
    BY <1>1, Typed DEF ClientInv
  <2>2. Less(bs[data.bev], bevs[data.bev])
    BY <1>1
  <2>3. bevs[data.bev].out = "empty" /\ data.eof_cb = "NULL"
    BY <1>1, <2>1, <2>2 DEF BevInv, Confirmed, Less
  <2> QED BY <2>2, <2>3 DEF ClientInv, Callbacks, Less
<1>2. (/\ data.bev # Nil
       /\ bs[data.bev].acks > 0
       /\ data.write_cb \notin {"close_on_listcb", "close_on_retrcb"})
         => /\ bs[data.bev].out = "empty"
            /\ bs[data.bev].in => data.upload_fd # "file"
  BY <1>1
<1> QED BY <1>2, ClientClosed, Zenon

LEMMA ClosedNow ==
    ASSUME SafetyInv, Owned, ClientInv, AuthTimer',
           data' = close_data_connection(data),
           bevs' = bufferevent_free(bevs, data)
    PROVE  ClientInv'
<1>1. data.bev # Nil => Less(bevs[data.bev], bevs[data.bev])
  BY DEF Less
<1> QED BY <1>1, ClosedAsItIs, Typed

-----------------------------------------------------------------------------
(* The commands                                                            *)

(* The listing is written, or confirmed when it is empty; for LIST itself  *)
(* and for the end of the handshake after it.                              *)
LEMMA ClientListOutput ==
    ASSUME SafetyInv, Owned, ClientInv, AuthTimer',
           NEW d \in DataType, NEW bs \in [Bevs -> BevType], NEW c \in CtlType,
           NEW b \in Bevs, data.bev = b, d.bev = b,
           d.upload_fd = data.upload_fd, d.eof_cb = data.eof_cb,
           d.write_cb = data.write_cb, d.tls_cb = data.tls_cb,
           data.eof_cb = "NULL",
           data.write_cb \in {"NULL", "close_on_listcb"},
           Less(bs[b], bevs[b]), \A e \in Bevs : e # b => bs[e] = bevs[e],
           CloseDue => c.out \/ c.drained,
           send_list_command_output(d, bs, c)
    PROVE  ClientInv'
<1>1. bevs[b].open /\ BevInv(bevs[b]) /\ b # Nil
  BY Typed DEF SafetyInv, NothingStale, ClientInv
<1>2. data.upload_fd # "file"
  BY DEF ClientInv, Callbacks
<1>3. CASE data' = d /\ bevs' = bs /\ ctl' = c /\ UNCHANGED <<control_write_cb, reply>>
  <2>1. (CloseDue => CloseDue') /\ (Underway => Underway')
    BY <1>3 DEF CloseDue, Underway
  <2>2. \A e \in Bevs : Less(bevs'[e], bevs[e])
    BY <1>3 DEF Less
  <2>3. \A e \in Bevs : bevs[e].acks > 0 => CloseDue'
    BY <2>1 DEF ClientInv, BevInv, Confirmed
  <2>4. data.write_cb # "NULL" \/ data.eof_cb # "NULL" \/ data.tls_cb # "NULL"
          => Underway'
    BY <2>1 DEF ClientInv, Callbacks
  <2> QED BY <1>3, <2>2, <2>3, <2>4, FieldsKept
<1>4. CASE /\ data' = [d EXCEPT !.tls_cb = "close_data_connection_on_writecb"]
           /\ control_write_cb' = "close_data_connection_on_writecb"
           /\ ctl' = send_control_message(c)
           /\ bevs' = Acked(bs, d.bev)
  <2>1. /\ data'.write_cb = data.write_cb /\ data'.eof_cb = "NULL"
        /\ data'.upload_fd # "file"
        /\ data'.tls_cb = "close_data_connection_on_writecb"
    BY <1>2, <1>4 DEF DataType
  <2>2. CloseDue'
    <3>1. ctl'.out = TRUE
      BY <1>4 DEF send_control_message, CtlType
    <3> QED BY <1>4, <3>1 DEF CloseDue
  <2>3. Callbacks'
    BY <2>1, <2>2 DEF Callbacks, Underway
  <2>4. PICK n \in {1, 2} : bevs' = [bs EXCEPT ![b].acks = n]
    BY <1>1, <1>4 DEF Acked
  <2>5. bevs'[b] = [bs[b] EXCEPT !.acks = n] /\ \A e \in Bevs : e # b => bevs'[e] = bevs[e]
    BY <2>4
  <2>6. /\ bevs'[b].open /\ bevs'[b].lost = bevs[b].lost
        /\ bevs'[b].out = bs[b].out
    <3>1. bs[b] \in BevType
      OBVIOUS
    <3>2. /\ bevs'[b].open = bs[b].open /\ bevs'[b].lost = bs[b].lost
          /\ bevs'[b].out = bs[b].out
      BY <2>5, <3>1, AckFields, SMT
    <3> QED BY <1>1, <3>2 DEF Less
  <2>7. bevs'[b].out # "empty" => bevs[b].out # "empty"
    BY <2>6 DEF Less
  <2>8. BevInv(bevs[b])'
    BY <1>1, <2>1, <2>2, <2>6, <2>7 DEF BevInv, Confirmed
  <2> QED BY <2>3, <2>5, <2>8, OneChanged
<1>5. CASE /\ data' = [d EXCEPT !.write_cb = "close_on_listcb"]
           /\ bevs' = [bs EXCEPT ![d.bev].out = "high"]
           /\ ctl' = c
           /\ reply' = "prelim"
           /\ UNCHANGED control_write_cb
  <2>1. /\ data'.write_cb = "close_on_listcb" /\ data'.eof_cb = "NULL"
        /\ data'.upload_fd # "file"
    BY <1>2, <1>5 DEF DataType
  <2>2. Callbacks'
    BY <1>5, <2>1 DEF Callbacks, Underway
  <2>3. bevs'[b] = [bs[b] EXCEPT !.out = "high"] /\ \A e \in Bevs : e # b => bevs'[e] = bevs[e]
    BY <1>5
  <2>4. /\ bevs'[b].open /\ bevs'[b].lost = bevs[b].lost
        /\ bevs'[b].acks = bevs[b].acks
    <3>1. bs[b] \in BevType
      OBVIOUS
    <3>2. /\ bevs'[b].open = bs[b].open /\ bevs'[b].lost = bs[b].lost
          /\ bevs'[b].acks = bs[b].acks
      BY <2>3, <3>1, OutFields, SMT
    <3> QED BY <1>1, <3>2 DEF Less
  <2>5. CloseDue => CloseDue'
    BY <1>5 DEF CloseDue
  <2>6. BevInv(bevs[b])'
    BY <1>1, <2>1, <2>4, <2>5 DEF BevInv, Confirmed
  <2> QED BY <2>2, <2>3, <2>6, OneChanged
<1> QED BY <1>3, <1>4, <1>5 DEF send_list_command_output

LEMMA ClientList ==
    ASSUME SafetyInv, Owned, ClientInv, WaitingClient, ClientMaySend, AuthTimer',
           handle_list_command
    PROVE  ClientInv'
<1>1. CASE ReplyThen("close_data_connection_on_writecb") \/ SimpleReply
  BY <1>1, IdleReply DEF ReplyThen, SimpleReply
<1>2. CASE /\ data' = [data EXCEPT !.tls_cb = "list"]
           /\ reply' = "prelim"
           /\ UNCHANGED bevs
  <2>1. /\ data'.write_cb = "NULL" /\ data'.eof_cb = "NULL"
        /\ data'.upload_fd # "file"
    BY <1>2, Idle, Typed DEF DataType
  <2>2. Callbacks'
    BY <1>2, <2>1 DEF Callbacks, Underway
  <2>3. ASSUME NEW b \in Bevs
        PROVE  BevInv(bevs[b])'
    <3>1. BevInv(bevs[b]) /\ bevs[b].acks = 0 /\ bevs[b].out = "empty"
      BY Idle DEF ClientInv
    <3> QED BY <1>2, <3>1 DEF BevInv, Confirmed
  <2> QED BY <2>2, <2>3 DEF ClientInv
<1>3. CASE /\ data.bev # Nil
           /\ send_list_command_output(data, bevs, send_control_message(ctl))
  <2>1. send_control_message(ctl) \in CtlType /\ send_control_message(ctl).out
    BY Typed DEF send_control_message, CtlType
  <2>2. data.bev \in Bevs /\ Less(bevs[data.bev], bevs[data.bev])
    BY <1>3, Typed DEF Less
  <2> QED BY <1>3, <2>1, <2>2, Idle, Typed, ClientListOutput
<1> QED BY <1>1, <1>2, <1>3 DEF handle_list_command

(* A download begins on an idle connection.                                *)
LEMMA ClientBegin ==
    ASSUME SafetyInv, Owned, ClientInv, WaitingClient, ClientMaySend, AuthTimer',
           data.bev # Nil, reply' = "prelim",
           data'.write_cb # "NULL", data'.eof_cb = "NULL",
           data'.upload_fd # "file", data'.tls_cb = "NULL",
           bevs'[data.bev].open = bevs[data.bev].open,
           bevs'[data.bev].lost = bevs[data.bev].lost,
           bevs'[data.bev].acks = bevs[data.bev].acks,
           \A c \in Bevs : c # data.bev => bevs'[c] = bevs[c]
    PROVE  ClientInv'
<1>1. PICK b \in Bevs : b = data.bev
  BY Typed
<1>2. Callbacks'
  BY DEF Callbacks, Underway
<1>3. bevs[b].acks = 0 /\ bevs[b].open /\ BevInv(bevs[b])
  BY <1>1, Idle DEF SafetyInv, NothingStale, ClientInv
<1>4. bevs'[b].open /\ bevs'[b].lost = bevs[b].lost /\ bevs'[b].acks = 0
  BY <1>1, <1>3
<1>5. BevInv(bevs[b])'
  BY <1>3, <1>4 DEF BevInv, Confirmed
<1> QED BY <1>1, <1>2, <1>5, OneChanged

LEMMA ClientRetr ==
    ASSUME SafetyInv, Owned, ClientInv, WaitingClient, ClientMaySend, AuthTimer',
           cftp_send_file
    PROVE  ClientInv'
<1>1. CASE UNCHANGED <<data, bevs>>
  BY <1>1, IdleReply
<1>2. ASSUME data.bev # Nil, reply' = "prelim",
             data' = [data EXCEPT
               !.write_cb = "download_completion_on_plain_connection_cb"],
             bevs' = bevs \/ bevs' = [bevs EXCEPT ![data.bev].out = "high"]
      PROVE  ClientInv'
  <2>1. /\ data'.write_cb = "download_completion_on_plain_connection_cb"
        /\ data'.eof_cb = "NULL" /\ data'.tls_cb = "NULL"
        /\ data'.upload_fd # "file"
    BY <1>2, Idle, Typed DEF DataType
  <2>2. /\ data.bev \in Bevs
        /\ \/ bevs'[data.bev] = bevs[data.bev]
           \/ bevs'[data.bev] = [bevs[data.bev] EXCEPT !.out = "high"]
        /\ \A c \in Bevs : c # data.bev => bevs'[c] = bevs[c]
    BY <1>2, Typed
  <2>3. /\ bevs'[data.bev].open = bevs[data.bev].open
        /\ bevs'[data.bev].lost = bevs[data.bev].lost
        /\ bevs'[data.bev].acks = bevs[data.bev].acks
    <3>1. bevs[data.bev] \in BevType
      BY <2>2, Typed
    <3>2. CASE bevs'[data.bev] = bevs[data.bev]
      BY <3>2
    <3>3. CASE bevs'[data.bev] = [bevs[data.bev] EXCEPT !.out = "high"]
      BY <3>1, <3>3, OutFields, SMT
    <3> QED BY <2>2, <3>2, <3>3
  <2> QED BY <1>2, <2>1, <2>2, <2>3, ClientBegin
<1>3. ASSUME data.bev # Nil, reply' = "prelim", NEW empty \in BOOLEAN,
             send_next_chunk([data EXCEPT !.stream = "open",
                                          !.write_cb = "send_next_chunk"],
                             [bevs EXCEPT ![data.bev].low = TRUE],
                             data.bev, empty)
      PROVE  ClientInv'
  <2> DEFINE d == [data EXCEPT !.stream = "open", !.write_cb = "send_next_chunk"]
             bs == [bevs EXCEPT ![data.bev].low = TRUE]
  <2>1. data.bev \in Bevs
    BY <1>3, Typed
  <2>2. /\ d \in DataType /\ d.write_cb = "send_next_chunk"
        /\ d.eof_cb = "NULL" /\ d.tls_cb = "NULL" /\ d.upload_fd # "file"
    BY Idle, Typed DEF DataType
  <2>3. bs[data.bev] = [bevs[data.bev] EXCEPT !.low = TRUE]
        /\ \A c \in Bevs : c # data.bev => bs[c] = bevs[c]
    BY <2>1, Typed
  <2>4. bs[data.bev] \in BevType /\ Less(bs[data.bev], bevs[data.bev])
    <3> HIDE DEF bs
    <3> QED BY <2>1, <2>3, Typed, OtherFields, Zenon
  <2>5. bs \in [Bevs -> BevType]
    BY <2>1, <2>3, <2>4, Typed
  <2>6. send_next_chunk(d, bs, data.bev, empty)
    BY <1>3
  <2> HIDE DEF d, bs
  <2>7. /\ data'.write_cb # "NULL" /\ data'.eof_cb = "NULL"
        /\ data'.tls_cb = "NULL" /\ data'.upload_fd # "file"
    BY <2>2, <2>6 DEF send_next_chunk, DataType
  <2>8. PICK o : bevs' = bs \/ bevs' = [bs EXCEPT ![data.bev].out = o]
    BY <2>6 DEF send_next_chunk
  <2>9. \/ bevs'[data.bev] = bs[data.bev]
        \/ bevs'[data.bev] = [bs[data.bev] EXCEPT !.out = o]
    BY <2>1, <2>5, <2>8
  <2>10. /\ bevs'[data.bev].open = bevs[data.bev].open
         /\ bevs'[data.bev].lost = bevs[data.bev].lost
         /\ bevs'[data.bev].acks = bevs[data.bev].acks
    <3>1. /\ bevs'[data.bev].open = bs[data.bev].open
          /\ bevs'[data.bev].lost = bs[data.bev].lost
          /\ bevs'[data.bev].acks = bs[data.bev].acks
      <4>1. CASE bevs'[data.bev] = bs[data.bev]
        BY <4>1
      <4>2. CASE bevs'[data.bev] = [bs[data.bev] EXCEPT !.out = o]
        BY <2>4, <4>2, OutFields, SMT
      <4> QED BY <2>9, <4>1, <4>2
    <3> QED BY <2>4, <3>1 DEF Less
  <2>11. \A c \in Bevs : c # data.bev => bevs'[c] = bevs[c]
    BY <2>1, <2>3, <2>5, <2>8
  <2> QED BY <1>3, <2>7, <2>10, <2>11, ClientBegin
<1>4. CASE ftp_send_file_with_evbuffer
  <2>1. {FALSE} \cup {"empty" \in Env} \subseteq BOOLEAN
    OBVIOUS
  <2> QED BY <1>1, <1>3, <1>4, <2>1, Zenon DEF ftp_send_file_with_evbuffer
<1>5. CASE ftp_send_file_plain
  BY <1>1, <1>2, <1>5 DEF ftp_send_file_plain
<1> QED BY <1>4, <1>5 DEF cftp_send_file

LEMMA ClientStor ==
    ASSUME SafetyInv, Owned, ClientInv, WaitingClient, ClientMaySend, AuthTimer',
           cftp_recv_file_with_evbuffer
    PROVE  ClientInv'
<1>1. CASE ReplyThen("close_data_connection_on_writecb") \/ SimpleReply
  BY <1>1, IdleReply DEF ReplyThen, SimpleReply
<1>2. CASE /\ \/ data' = [data EXCEPT !.upload_fd = "file",
                                      !.eof_cb = "on_eof_event_cb",
                                      !.tls_cb = "stor"]
              \/ data' = [data EXCEPT !.upload_fd = "file",
                                      !.eof_cb = "on_eof_event_cb",
                                      !.read_cb = "on_stor_read"]
           /\ reply' = "prelim"
           /\ UNCHANGED bevs
  <2>1. /\ data'.write_cb = "NULL" /\ data'.eof_cb = "on_eof_event_cb"
        /\ data'.tls_cb \in {"NULL", "stor"}
    BY <1>2, Idle, Typed DEF DataType
  <2>2. Callbacks'
    BY <1>2, <2>1 DEF Callbacks, Underway
  <2>3. ASSUME NEW b \in Bevs
        PROVE  BevInv(bevs[b])'
    <3>1. BevInv(bevs[b]) /\ bevs[b].acks = 0 /\ bevs[b].out = "empty"
      BY Idle DEF ClientInv
    <3> QED BY <1>2, <3>1 DEF BevInv, Confirmed
  <2> QED BY <2>2, <2>3 DEF ClientInv
<1> QED BY <1>1, <1>2 DEF cftp_recv_file_with_evbuffer

(* Without a data connection nothing is confirmed and nothing under way.   *)
LEMMA NoDataKept ==
    ASSUME SafetyInv, Owned, ClientInv, data.bev = Nil, AuthTimer',
           UNCHANGED <<data, bevs>>
    PROVE  ClientInv'
<1>1. \A b \in Bevs : ~bevs[b].open
  BY Typed DEF Owned, NoLeak
<1>2. \A b \in Bevs : BevInv(bevs[b])'
  BY <1>1, StaysClosed DEF ClientInv
<1>3. Callbacks'
  BY DEF SafetyInv, NothingStale, ClientInv, Callbacks
<1> QED BY <1>2, <1>3 DEF ClientInv

(* ABOR may come at any moment.                                            *)
LEMMA ClientAbor ==
    ASSUME SafetyInv, Owned, ClientInv, AuthTimer',
           cftp_abor_authenticated_action
    PROVE  ClientInv'
<1>1. CASE data.active
  BY <1>1, ClosedNow DEF cftp_abor_authenticated_action
<1>2. CASE ~data.active
  <2>1. CloseDue'
    BY <1>2, Typed DEF cftp_abor_authenticated_action, CloseDue,
                       send_control_message, CtlType
  <2> QED BY <1>2, <2>1, ClientKept DEF cftp_abor_authenticated_action, Underway
<1> QED BY <1>1, <1>2

(* Login and PASV keep the authentication timer in its place.              *)
LEMMA AuthTimerKept ==
    ASSUME SafetyInv, AuthTimer, Command
    PROVE  AuthTimer'
<1>1. CASE UNCHANGED <<authenticated, timers, timeout_event>>
  BY <1>1 DEF AuthTimer
<1>2. CASE ~authenticated /\ cftp_pass_authenticated
  BY <1>2 DEF cftp_pass_authenticated, SimpleReply, ReplyThen, AuthTimer,
              SafetyInv, TypeOK
<1>3. CASE authenticated /\ data_connection_listener_config
  BY <1>3 DEF data_connection_listener_config, AuthTimer, SafetyInv, TypeOK
<1> QED BY <1>1, <1>2, <1>3
        DEF Command, execute_ftp_command, SimpleReply, ReplyThen, upgrade_to_tls,
            cftp_prot_action, cftp_authenticated, cftp_non_authenticated,
            cftp_user_authenticated, FileReply, handle_list_command,
            send_list_command_output, cftp_send_file,
            cftp_recv_file_with_evbuffer, cftp_abor_authenticated_action

LEMMA ClientCommand ==
    ASSUME SafetyInv, Owned, ClientInv, WaitingClient, Command
    PROVE  ClientInv'
<1>1. AuthTimer'
  BY AuthTimerKept DEF ClientInv
<1>2. CASE ClientMaySend /\ UNCHANGED <<data, bevs>>
  BY <1>1, <1>2, IdleReply
<1>3. CASE ~authenticated /\ cftp_non_authenticated
  <2>1. data.bev = Nil
    BY <1>3 DEF SafetyInv, AuthGate
  <2> QED BY <1>1, <1>3, <2>1, NoDataKept DEF cftp_non_authenticated, SimpleReply
<1>4. CASE cftp_abor_authenticated_action
  BY <1>1, <1>4, ClientAbor
<1>5. CASE /\ ClientMaySend
           /\ \/ handle_list_command
              \/ cftp_send_file
              \/ cftp_recv_file_with_evbuffer
  BY <1>1, <1>5, ClientList, ClientRetr, ClientStor
<1> QED BY <1>2, <1>3, <1>4, <1>5
        DEF Command, execute_ftp_command, SimpleReply, ReplyThen, upgrade_to_tls,
            cftp_prot_action, cftp_authenticated, cftp_user_authenticated,
            cftp_pass_authenticated, FileReply, data_connection_listener_config

-----------------------------------------------------------------------------
(* The callbacks                                                           *)

LEMMA AuthTimerData ==
    ASSUME AuthTimer, UNCHANGED <<authenticated, timers, timeout_event>>
    PROVE  AuthTimer'
  BY DEF AuthTimer

LEMMA ClientControl ==
    ASSUME SafetyInv, Owned, ClientInv,
           \/ ControlWritten \/ on_write \/ ControlHandshake \/ on_event
    PROVE  ClientInv'
<1>1. AuthTimer' /\ UNCHANGED reply
  BY AuthTimerData DEF ControlWritten, on_write, ControlHandshake, on_event, ClientInv
<1>2. CASE ControlWritten \/ ControlHandshake \/ on_event
  <2>1. CloseDue => CloseDue'
    BY <1>2, Typed DEF ControlWritten, ControlHandshake, on_event, CloseDue, CtlType
  <2> QED BY <1>1, <1>2, <2>1, ClientKept
          DEF ControlWritten, ControlHandshake, on_event, Underway
<1>3. CASE on_write /\ control_write_cb = "close_data_connection_on_writecb"
  BY <1>1, <1>3, ClosedNow DEF on_write
<1>4. CASE on_write /\ control_write_cb # "close_data_connection_on_writecb"
  <2>1. ~CloseDue
    BY <1>4 DEF CloseDue
  <2> QED BY <1>1, <1>4, <2>1, ClientKept DEF on_write, Underway
<1> QED BY <1>2, <1>3, <1>4

LEMMA ClientTimeout ==
    ASSUME SafetyInv, Owned, ClientInv, NEW t \in Timers,
           terminate_process_on_timeout(t) \/ kill_listener_on_timeout(t)
    PROVE  ClientInv'
<1>1. AuthTimer'
  BY DEF terminate_process_on_timeout, kill_listener_on_timeout, ClientInv,
         AuthTimer, SafetyInv, TypeOK
<1>2. CASE terminate_process_on_timeout(t)
  <2>1. ~authenticated
    BY <1>2 DEF terminate_process_on_timeout, ClientInv, AuthTimer
  <2>2. data.bev = Nil
    BY <2>1 DEF SafetyInv, AuthGate
  <2> QED BY <1>1, <1>2, <2>2, NoDataKept DEF terminate_process_on_timeout
<1>3. CASE kill_listener_on_timeout(t)
  BY <1>1, <1>3, ClientKept DEF kill_listener_on_timeout, CloseDue, Underway
<1> QED BY <1>2, <1>3

LEMMA ClientAccept ==
    ASSUME SafetyInv, Owned, ClientInv, WaitingClient,
           NEW b \in Bevs, data_connection_accept_cb(b)
    PROVE  ClientInv'
<1>1. \A c \in Bevs : ~bevs[c].open
  BY DEF data_connection_accept_cb, WaitingClient
<1>2. data.bev = Nil
  BY <1>1, Typed DEF SafetyInv, NothingStale
<1>3. /\ data'.write_cb = "NULL" /\ data'.eof_cb = "NULL"
      /\ data'.tls_cb = "NULL" /\ data'.upload_fd # "file"
  BY <1>2, Typed DEF data_connection_accept_cb, DataType, SafetyInv,
                     NothingStale, ClientInv, Callbacks
<1>4. Callbacks'
  BY <1>3 DEF Callbacks
<1>5. AuthTimer'
  BY DEF data_connection_accept_cb, ClientInv, AuthTimer, SafetyInv, TypeOK
<1>6. ASSUME NEW c \in Bevs
      PROVE  BevInv(bevs[c])'
  <2>1. CASE c = b
    <3>1. bevs'[c] = [ClosedBev EXCEPT !.open = TRUE,
                                       !.tls = data_tls_required,
                                       !.connected = ~data_tls_required,
                                       !.kick = ~data_tls_required]
      BY <2>1, Typed DEF data_connection_accept_cb
    <3>2. /\ bevs'[c].open = TRUE /\ bevs'[c].lost = "nothing"
          /\ bevs'[c].out = "empty" /\ bevs'[c].acks = 0
      BY <3>1 DEF ClosedBev
    <3> QED BY <3>2 DEF BevInv, Confirmed
  <2>2. CASE c # b
    <3>1. bevs'[c] = bevs[c]
      BY <2>2, Typed DEF data_connection_accept_cb
    <3> QED BY <1>1, <3>1, StaysClosed DEF ClientInv
  <2> QED BY <2>1, <2>2
<1> QED BY <1>4, <1>5, <1>6 DEF ClientInv

(* A step on one data connection that only writes its output, reads its    *)
(* input or ends its handshake.                                            *)
LEMMA OneLess ==
    ASSUME ClientInv, NEW b \in Bevs,
           UNCHANGED <<authenticated, timers, timeout_event, ctl, control_write_cb,
                       reply>>,
           data'.upload_fd = data.upload_fd, data'.eof_cb = data.eof_cb,
           data'.write_cb = data.write_cb, data'.tls_cb = data.tls_cb,
           Less(bevs'[b], bevs[b]), \A c \in Bevs : c # b => bevs'[c] = bevs[c]
    PROVE  ClientInv'
<1>1. AuthTimer'
  BY AuthTimerData DEF ClientInv
<1>2. \A c \in Bevs : Less(bevs'[c], bevs[c])
  BY DEF Less
<1>3. (CloseDue => CloseDue') /\ (Underway => Underway')
  BY DEF CloseDue, Underway
<1>4. \A c \in Bevs : bevs[c].acks > 0 => CloseDue'
  BY <1>3 DEF ClientInv, BevInv, Confirmed
<1>5. data.write_cb # "NULL" \/ data.eof_cb # "NULL" \/ data.tls_cb # "NULL"
         => Underway'
  BY <1>3 DEF ClientInv, Callbacks
<1> QED BY <1>1, <1>2, <1>4, <1>5, FieldsKept

LEMMA ClientConnected ==
    ASSUME SafetyInv, Owned, ClientInv, NEW b \in Bevs, DataConnected(b)
    PROVE  ClientInv'
<1> DEFINE d == [data EXCEPT !.active = TRUE]
           bs == [bevs EXCEPT ![b].connected = TRUE]
<1>1. AuthTimer' /\ UNCHANGED <<authenticated, timers, timeout_event>>
  BY AuthTimerData DEF DataConnected, ClientInv
<1>2. data.bev = b /\ b # Nil
  BY Typed DEF DataConnected, Owned, NoLeak
<1>3. /\ d \in DataType /\ d.bev = b
      /\ d.upload_fd = data.upload_fd /\ d.eof_cb = data.eof_cb
      /\ d.write_cb = data.write_cb /\ d.tls_cb = data.tls_cb
      /\ d.stream = data.stream
  BY <1>2, Typed DEF DataType
<1>4. bs[b] = [bevs[b] EXCEPT !.connected = TRUE] /\ bevs[b] \in BevType
      /\ \A c \in Bevs : c # b => bs[c] = bevs[c]
  BY Typed
<1>5. bs[b] \in BevType /\ Less(bs[b], bevs[b])
  <2> HIDE DEF bs
  <2> QED BY <1>4, OtherFields, Zenon
<1>6. bs \in [Bevs -> BevType]
  BY <1>4, <1>5, Typed
<1> HIDE DEF d, bs
<1>7. CASE data' = d /\ bevs' = bs /\ UNCHANGED <<ctl, control_write_cb, reply>>
  BY <1>1, <1>3, <1>4, <1>5, <1>7, OneLess
<1>8. CASE data' = [d EXCEPT !.read_cb = "on_stor_read"] /\ bevs' = bs
           /\ UNCHANGED <<ctl, control_write_cb, reply>>
  <2>1. /\ data'.upload_fd = data.upload_fd /\ data'.eof_cb = data.eof_cb
        /\ data'.write_cb = data.write_cb /\ data'.tls_cb = data.tls_cb
    BY <1>3, <1>8 DEF DataType
  <2> QED BY <1>1, <1>4, <1>5, <1>8, <2>1, OneLess
<1>9. CASE data' = close_data_connection(d) /\ bevs' = bufferevent_free(bs, d)
  <2>1. data' = close_data_connection(data)
    BY <1>2, <1>3, <1>9 DEF close_data_connection
  <2>2. bevs' = bufferevent_free(bs, data)
    BY <1>2, <1>3, <1>9 DEF bufferevent_free, Buffered
  <2> QED BY <1>1, <1>2, <1>4, <1>5, <1>6, <2>1, <2>2, ClosedAsItIs
<1>10. CASE data.tls_cb = "list" /\ send_list_command_output(d, bs, ctl)
  <2>1. data.eof_cb = "NULL" /\ data.write_cb \in {"NULL", "close_on_listcb"}
    BY <1>10 DEF ClientInv, Callbacks
  <2>2. CloseDue => ctl.out \/ ctl.drained
    BY DEF CloseDue
  <2> QED BY <1>1, <1>2, <1>3, <1>4, <1>5, <1>6, <1>10, <2>1, <2>2, Typed,
             ClientListOutput
<1> QED BY <1>7, <1>8, <1>9, <1>10 DEF DataConnected, d, bs

LEMMA ClientWritten ==
    ASSUME SafetyInv, ClientInv, NEW b \in Bevs, DataWritten(b)
    PROVE  ClientInv'
<1>1. PICK o \in {"empty", "low"} :
         /\ \/ bevs[b].out = "high"
            \/ o = "empty" /\ (bevs[b].out = "low" \/ bevs[b].kick)
         /\ bevs' = [bevs EXCEPT ![b].out = o, ![b].kick = FALSE,
                                 ![b].wr = @ \/ o = "empty" \/ bevs[b].low]
  BY DEF DataWritten
<1> DEFINE w == bevs[b].wr \/ o = "empty" \/ bevs[b].low
<1>2. bevs'[b] = [bevs[b] EXCEPT !.out = o, !.kick = FALSE, !.wr = w]
  BY <1>1, Typed
<1>3. o # "empty" => bevs[b].out # "empty"
  BY <1>1
<1> HIDE DEF w
<1>4. Less(bevs'[b], bevs[b])
  <2> DEFINE r == bevs[b]
             q == [r EXCEPT !.out = o, !.kick = FALSE, !.wr = w]
  <2>1. r \in BevType /\ bevs'[b] = q
    BY <1>2, Typed
  <2> HIDE DEF r
  <2>2. q.open = r.open /\ q.lost = r.lost /\ q.acks = r.acks /\ q.out = o
    BY <2>1 DEF BevType
  <2> HIDE DEF q
  <2>3. /\ bevs'[b].open = bevs[b].open /\ bevs'[b].lost = bevs[b].lost
        /\ bevs'[b].acks = bevs[b].acks /\ bevs'[b].out = o
    BY <2>1, <2>2 DEF r
  <2> QED BY <1>3, <2>3 DEF Less
<1>5. \A c \in Bevs : c # b => bevs'[c] = bevs[c]
  BY <1>1, Typed
<1> QED BY <1>4, <1>5, OneLess DEF DataWritten

LEMMA ClientReadCb ==
    ASSUME SafetyInv, ClientInv, NEW b \in Bevs, data_connection_read_cb(b)
    PROVE  ClientInv'
<1>1. PICK x \in BOOLEAN : bevs' = [bevs EXCEPT ![b].in = x]
  BY DEF data_connection_read_cb
<1>2. bevs'[b] = [bevs[b] EXCEPT !.in = x] /\ bevs[b] \in BevType
      /\ \A c \in Bevs : c # b => bevs'[c] = bevs[c]
  BY <1>1, Typed
<1>3. Less(bevs'[b], bevs[b])
  BY <1>2, InFields, Zenon
<1> QED BY <1>2, <1>3, OneLess DEF data_connection_read_cb

(* The write callback: the final reply, or the next piece of the file.     *)
LEMMA ClientWriteCb ==
    ASSUME SafetyInv, Owned, ClientInv, NEW b \in Bevs, data_connection_write_cb(b)
    PROVE  ClientInv'
<1> DEFINE bs == [bevs EXCEPT ![b].wr = FALSE]
<1>1. AuthTimer' /\ UNCHANGED <<authenticated, timers, timeout_event>>
  BY AuthTimerData DEF data_connection_write_cb, ClientInv
<1>2. bevs[b] \in BevType /\ BevInv(bevs[b]) /\ bevs[b].open /\ data.bev = b /\ b # Nil
  BY Typed DEF data_connection_write_cb, ClientInv, Owned, NoLeak
<1>3. bs[b] = [bevs[b] EXCEPT !.wr = FALSE]
      /\ \A c \in Bevs : c # b => bs[c] = bevs[c]
  BY Typed
<1>4. bs[b] \in BevType /\ Less(bs[b], bevs[b]) /\ bs[b].out = bevs[b].out
  <2> HIDE DEF bs
  <2> QED BY <1>2, <1>3, OtherFields, Zenon
<1>5. bs \in [Bevs -> BevType]
  BY <1>3, <1>4, Typed
<1> HIDE DEF bs
<1>6. CASE bevs' = bs /\ UNCHANGED <<control_write_cb, ctl, data, reply>>
  BY <1>1, <1>3, <1>4, <1>6, OneLess
<1>7. CASE /\ \/ data.write_cb \in {"close_on_listcb", "close_on_retrcb"}
              \/ /\ data.write_cb = "download_completion_on_plain_connection_cb"
                 /\ bs[b].out = "empty"
           /\ ConfirmThenClose(bs)
  <2>1. data.eof_cb = "NULL" /\ UNCHANGED data
    BY <1>7 DEF ClientInv, Callbacks, ConfirmThenClose
  <2>2. CloseDue'
    <3>1. ctl'.out = TRUE
      BY <1>7, Typed DEF ConfirmThenClose, send_control_message, CtlType
    <3> QED BY <1>7, <3>1 DEF ConfirmThenClose, CloseDue
  <2>3. Callbacks'
    BY <2>1, <2>2 DEF ClientInv, Callbacks, Underway
  <2>4. PICK n \in {1, 2} : bevs' = [bs EXCEPT ![b].acks = n]
    BY <1>2, <1>7 DEF ConfirmThenClose, Acked
  <2>5. bevs'[b] = [bs[b] EXCEPT !.acks = n]
        /\ \A c \in Bevs : c # b => bevs'[c] = bevs[c]
    BY <1>3, <1>5, <2>4
  <2>6. /\ bevs'[b].open = bs[b].open /\ bevs'[b].lost = bs[b].lost
        /\ bevs'[b].out = bs[b].out
    BY <1>4, <2>5, AckFields, SMT
  <2>7. /\ bevs'[b].open /\ bevs'[b].lost = bevs[b].lost
        /\ bevs'[b].out = bevs[b].out
    BY <1>2, <1>4, <2>6 DEF Less
  <2>8. BevInv(bevs[b])'
    BY <1>2, <1>4, <1>7, <2>1, <2>2, <2>7 DEF BevInv, Confirmed
  <2> QED BY <1>1, <1>2, <2>3, <2>5, <2>8, OneChanged
<1>8. CASE /\ data.write_cb = "send_next_chunk"
           /\ send_next_chunk(data, bs, b, FALSE)
           /\ UNCHANGED <<control_write_cb, ctl, reply>>
  <2>1. data'.write_cb # "NULL" /\ data'.eof_cb = data.eof_cb
        /\ data'.tls_cb = data.tls_cb /\ data'.upload_fd = data.upload_fd
    BY <1>8, Typed DEF send_next_chunk, DataType
  <2>2. data.eof_cb = "NULL" /\ data.tls_cb # "list" /\ Underway
    BY <1>8 DEF ClientInv, Callbacks
  <2>3. Callbacks'
    BY <1>8, <2>1, <2>2 DEF ClientInv, Callbacks, Underway, CloseDue
  <2>4. ~(bevs[b].acks > 0)
    BY <1>2, <1>8 DEF BevInv, Confirmed
  <2>5. PICK o : bevs' = bs \/ bevs' = [bs EXCEPT ![b].out = o]
    BY <1>8 DEF send_next_chunk
  <2>6. /\ \/ bevs'[b] = bs[b]
           \/ bevs'[b] = [bs[b] EXCEPT !.out = o]
        /\ \A c \in Bevs : c # b => bevs'[c] = bevs[c]
    BY <1>3, <1>5, <2>5
  <2>7. /\ bevs'[b].open = bs[b].open /\ bevs'[b].lost = bs[b].lost
        /\ bevs'[b].acks = bs[b].acks
    <3>1. CASE bevs'[b] = bs[b]
      BY <3>1
    <3>2. CASE bevs'[b] = [bs[b] EXCEPT !.out = o]
      BY <1>4, <3>2, OutFields, SMT
    <3> QED BY <2>6, <3>1, <3>2
  <2>8. BevInv(bevs[b])'
    BY <1>2, <1>4, <2>1, <2>4, <2>7 DEF BevInv, Confirmed, Less
  <2> QED BY <1>1, <1>2, <2>3, <2>6, <2>8, OneChanged
<1> QED BY <1>2, <1>6, <1>7, <1>8
        DEF data_connection_write_cb, download_completion_on_plain_connection_cb, bs

(* The end of an upload, or of a connection.                               *)
LEMMA ClientEvent ==
    ASSUME SafetyInv, Owned, ClientInv, NEW b \in Bevs, DataEof(b) \/ DataError(b)
    PROVE  ClientInv'
<1>1. AuthTimer' /\ UNCHANGED <<authenticated, timers, timeout_event>>
  BY AuthTimerData DEF DataEof, DataError, ClientInv
<1>2. /\ bevs[b] \in BevType /\ BevInv(bevs[b]) /\ bevs[b].open
      /\ data.bev = b /\ b # Nil
  BY Typed DEF DataEof, DataError, ClientInv, Owned, NoLeak
<1>3. CASE CloseAfterEvent(b, bevs)
  <2> DEFINE bs == [bevs EXCEPT ![b].eof = TRUE]
  <2>1. bs[b] = [bevs[b] EXCEPT !.eof = TRUE]
        /\ \A c \in Bevs : c # b => bs[c] = bevs[c]
    BY Typed
  <2>2. data' = close_data_connection(data) /\ bevs' = bufferevent_free(bs, data)
    BY <1>3 DEF CloseAfterEvent
  <2> HIDE DEF bs
  <2>3. bs[b] \in BevType /\ Less(bs[b], bevs[b])
    BY <1>2, <2>1, OtherFields, Zenon
  <2>4. bs \in [Bevs -> BevType]
    BY <2>1, <2>3, Typed DEF bs
  <2> QED BY <1>1, <1>2, <2>1, <2>2, <2>3, <2>4, ClosedAsItIs
<1>4. CASE UNCHANGED <<data, bevs, ctl, reply, control_write_cb>>
  BY <1>1, <1>4, ClientKept DEF CloseDue, Underway
<1>5. CASE /\ data.eof_cb # "NULL"
           /\ CloseAfterEvent(b, Acked([bevs EXCEPT ![data.bev].in = FALSE], data.bev))
  <2> DEFINE as == [bevs EXCEPT ![b].in = FALSE]
             cs == Acked(as, b)
             bs == [cs EXCEPT ![b].eof = TRUE]
  <2>1. bevs[b].out = "empty"
    BY <1>2, <1>5 DEF BevInv, ClientInv, Callbacks
  <2>2. as[b] = [bevs[b] EXCEPT !.in = FALSE]
        /\ \A c \in Bevs : c # b => as[c] = bevs[c]
    BY Typed
  <2>3. data' = close_data_connection(data) /\ bevs' = bufferevent_free(bs, data)
    BY <1>2, <1>5 DEF CloseAfterEvent
  <2>4. as \in [Bevs -> BevType] /\ as[b].out = "empty" /\ ~as[b].in
    <3> HIDE DEF as
    <3>1. as[b] \in BevType /\ as[b].out = bevs[b].out /\ as[b].in = FALSE
      BY <1>2, <2>2, InFields, Zenon
    <3> QED BY <2>1, <2>2, <3>1, Typed DEF as
  <2> HIDE DEF as
  <2>5. PICK n \in {1, 2} : cs = [as EXCEPT ![b].acks = n]
    BY <1>2 DEF Acked
  <2>6. cs \in [Bevs -> BevType]
    BY <2>4, AckedType
  <2> HIDE DEF cs
  <2>7. cs[b] = [as[b] EXCEPT !.acks = n] /\ as[b] \in BevType /\ cs[b] \in BevType
        /\ \A c \in Bevs : c # b => cs[c] = bevs[c]
    BY <2>2, <2>4, <2>5, <2>6
  <2>8. cs[b].out = as[b].out /\ cs[b].in = as[b].in
    BY <2>7, AckFields, SMT
  <2>9. bs[b] = [cs[b] EXCEPT !.eof = TRUE] /\ \A c \in Bevs : c # b => bs[c] = bevs[c]
    BY <2>6, <2>7
  <2>10. bs[b] \in BevType /\ bs[b].out = cs[b].out /\ bs[b].in = cs[b].in
    <3> HIDE DEF bs
    <3> QED BY <2>7, <2>9, OtherFields, Zenon
  <2>11. bs \in [Bevs -> BevType]
    BY <2>6, <2>9, <2>10, Typed
  <2> HIDE DEF bs
  <2> QED BY <1>1, <1>2, <2>3, <2>4, <2>8, <2>9, <2>10, <2>11, ClientClosed
<1> QED BY <1>3, <1>4, <1>5 DEF DataEof, DataError, on_eof_event_cb

-----------------------------------------------------------------------------
LEMMA NextClient ==
    ASSUME SafetyInv, Owned, ClientInv, WaitingClient, [Next]_vars
    PROVE  ClientInv'
<1>1. CASE UNCHANGED <<authenticated, ctl, control_write_cb, timers, timeout_event,
                       data, bevs, reply>>
  <2>1. AuthTimer'
    BY <1>1, AuthTimerData DEF ClientInv
  <2> QED BY <1>1, <2>1, ClientKept DEF CloseDue, Underway
<1> QED BY <1>1, ClientCommand, ClientControl, ClientTimeout, ClientAccept,
           ClientConnected, ClientWritten, ClientWriteCb, ClientReadCb, ClientEvent
        DEF Next, vars, DataBroken

LEMMA InitClient == Init => ClientInv
<1> SUFFICES ASSUME Init PROVE ClientInv
  OBVIOUS
<1>1. Callbacks /\ AuthTimer
  BY DEF Init, Callbacks, AuthTimer
<1>2. ASSUME NEW b \in Bevs PROVE BevInv(bevs[b])
  <2>1. bevs[b] = ClosedBev
    BY DEF Init
  <2>2. /\ ~ClosedBev.open /\ ClosedBev.lost = "nothing"
        /\ ClosedBev.out = "empty" /\ ClosedBev.acks = 0
    BY DEF ClosedBev
  <2> QED BY <2>1, <2>2 DEF BevInv, Confirmed
<1> QED BY <1>1, <1>2 DEF ClientInv

LEMMA ClientAlways ==
    ASSUME WaitingClient
    PROVE  Spec => [](SafetyInv /\ ClientInv)
<1>1. "multi" \notin Env
  BY DEF WaitingClient
<1>2. Spec => []Owned
  BY <1>1, OwnedAlways
<1>3. SafetyInv /\ Owned /\ ClientInv /\ [Next]_vars => ClientInv'
  BY NextClient
<1> QED BY <1>2, <1>3, InitClient, SessionSafe, PTL DEF Spec

(* For a client that waits for replies and opens one data connection at a  *)
(* time, whatever the network and the disk do, whenever it aborts and      *)
(* whenever the server comes to handle its commands: an upload or a plain  *)
(* download that 226 confirmed is complete when its connection is freed.   *)
THEOREM TransfersComplete ==
    ASSUME WaitingClient
    PROVE  Spec => []NoLoss
<1>1. Spec => [](SafetyInv /\ ClientInv)
  BY ClientAlways
<1>2. ClientInv => NoLoss
  BY DEF ClientInv, BevInv, NoLoss
<1> QED BY <1>1, <1>2, PTL

=============================================================================
