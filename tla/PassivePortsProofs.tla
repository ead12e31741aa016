-------------------------- MODULE PassivePortsProofs --------------------------
(***************************************************************************)
(* Proofs about the start of the server and the search for passive ports,  *)
(* for any number of sessions, any files and any ports that are taken.     *)
(***************************************************************************)
EXTENDS PassivePorts, FiniteSetTheorems, SequenceTheorems, TLAPS

-----------------------------------------------------------------------------
(* Configuration                                                           *)

(* What is known of the temporary file at each step of the seeding, and of *)
(* a file that was seeded: its content reached the disk before its name.   *)
Progress ==
    /\ pc \in {"write", "fsync", "rename"} =>
          tmp # NoFile /\ tmp.by = "server"
    /\ pc \in {"fsync", "rename"} => tmp.lines = Seed
    /\ pc = "rename" => tmp.data
    /\ pc = "dirsync" => conf # NoFile
    /\ conf # NoFile /\ conf.by = "server" => conf.lines = Seed /\ conf.data

ConfigInv == ConfigTypeOK /\ Progress /\ TempRemoved /\ SettingsValid

(* The seeded content is a sequence of lines.                              *)
LEMMA SeedTyped == Seed \in Seq(Line) /\ Len(Seed) = 6
  <1>1. \A k \in Keys, v \in Int : [key |-> k, val |-> v] \in Line
    BY DEF Line
  <1>2. /\ "max_connections" \in Keys /\ "connection_accept_timeout" \in Keys
        /\ "data_connection_accept_timeout" \in Keys
        /\ "passive_port_start" \in Keys /\ "passive_port_end" \in Keys
        /\ "port" \in Keys
    BY DEF Keys, Default
  <1> QED  BY <1>1, <1>2 DEF Seed

(* A prefix of a sequence of lines is one, and the whole prefix is itself. *)
LEMMA Prefix ==
  ASSUME NEW q \in Seq(Line), NEW n \in 0..Len(q)
  PROVE  /\ SubSeq(q, 1, n) \in Seq(Line)
         /\ n = Len(q) => SubSeq(q, 1, n) = q
  OBVIOUS

(* The bounds contain the defaults, and a line keeps a setting in bounds.  *)
Sound(c) == c \in [Keys -> Int] /\ InBounds(c)

LEMMA BoundsHold == Sound(Default)
  BY DEF Sound, InBounds, Keys, Default, Least, Most, INT_MAX

LEMMA SetTyped ==
  ASSUME NEW c, Sound(c), NEW key \in Keys, NEW val \in Int,
         val >= Least[key], val <= Most[key]
  PROVE  Sound(Set(c, key, val))
  BY DEF Set, Sound, InBounds

LEMMA AssignTyped ==
  ASSUME NEW c, Sound(c), NEW l \in Line
  PROVE  Sound(assign_kv(c, l))
  BY SetTyped DEF assign_kv

LEMMA PortKeys ==
  /\ "passive_port_start" \in Keys /\ "passive_port_end" \in Keys
  /\ Least["passive_port_start"] = 1024 /\ Least["passive_port_end"] = 1024
  /\ Most["passive_port_start"] = 65535 /\ Most["passive_port_end"] = 65535
  BY DEF Keys, Default, Least, Most

LEMMA PortsSound ==
  ASSUME NEW c, Sound(c)
  PROVE  /\ c.passive_port_start \in Int /\ c.passive_port_end \in Int
         /\ 1024 <= c.passive_port_start /\ c.passive_port_start <= 65535
         /\ 1024 <= c.passive_port_end /\ c.passive_port_end <= 65535
  <1>1. /\ c["passive_port_start"] \in Int /\ c["passive_port_end"] \in Int
        /\ 1024 <= c["passive_port_start"] /\ c["passive_port_start"] <= 65535
        /\ 1024 <= c["passive_port_end"] /\ c["passive_port_end"] <= 65535
    BY PortKeys DEF Sound, InBounds
  <1> QED  BY <1>1

(* The range of ports stays in bounds when its ends are put in order.      *)
LEMMA OrderTyped ==
  ASSUME NEW c, Sound(c), NEW a \in Int, NEW b \in Int,
         1024 <= a, a <= 65535, 1024 <= b, b <= 65535
  PROVE  Sound(InOrder(c, a, b))
  <1>1. ASSUME NEW x \in Int, NEW y \in Int,
               1024 <= x, x <= 65535, 1024 <= y, y <= 65535
        PROVE  Sound(Set(Set(c, "passive_port_start", x), "passive_port_end", y))
    <2>1. Sound(Set(c, "passive_port_start", x))
      BY <1>1, SetTyped, PortKeys
    <2> QED  BY <1>1, <2>1, SetTyped, PortKeys
  <1> QED  BY <1>1 DEF InOrder

LEMMA ValidateTyped ==
  ASSUME NEW c, Sound(c)
  PROVE  Sound(post_validate(c))
  <1>1. PICK a \in Int : a = c.passive_port_start
    BY PortsSound
  <1>2. PICK b \in Int : b = c.passive_port_end
    BY PortsSound
  <1>3. 1024 <= a /\ a <= 65535 /\ 1024 <= b /\ b <= 65535
    BY <1>1, <1>2, PortsSound
  <1>4. post_validate(c) = InOrder(c, IF a < 1 THEN 1 ELSE a,
                                      IF b > 65535 THEN 65535 ELSE b)
    BY <1>1, <1>2 DEF post_validate
  <1>5. post_validate(c) = InOrder(c, a, b)
    BY <1>3, <1>4
  <1> QED  BY <1>3, <1>5, OrderTyped

LEMMA RangeTyped ==
  ASSUME NEW a \in Int, NEW b \in Int,
         1024 <= a, a <= 65535, 1024 <= b, b <= 65535
  PROVE  /\ connections_init_pasv_range(a, b) \in [start : Int, end : Int]
         /\ 1024 <= connections_init_pasv_range(a, b).start
         /\ connections_init_pasv_range(a, b).start
              <= connections_init_pasv_range(a, b).end
         /\ connections_init_pasv_range(a, b).end <= 65535
  <1> DEFINE x == IF b < a THEN b ELSE a
             y == IF b < a THEN a ELSE b
  <1>1. /\ x \in Int /\ 1024 <= x /\ x <= 65535
        /\ y \in Int /\ 1024 <= y /\ y <= 65535
        /\ x <= y
    OBVIOUS
  <1>2. /\ (IF x < 1 THEN 1 ELSE x) % 65536 = x
        /\ (IF y > 65535 THEN 65535 ELSE y) % 65536 = y
    BY <1>1
  <1>3. connections_init_pasv_range(a, b) = [start |-> x, end |-> y]
    BY <1>2 DEF connections_init_pasv_range
  <1> HIDE DEF x, y
  <1> QED  BY <1>1, <1>3

LEMMA ConfigStart == ConfigInit => ConfigInv
  <1> SUFFICES ASSUME ConfigInit PROVE ConfigInv
    OBVIOUS
  <1>1. ConfigTypeOK
    <2>1. conf \in Content \cup {NoFile}
      <3>1. ASSUME NEW f \in Files, conf = [lines |-> f, data |-> TRUE,
                                           name |-> TRUE, by |-> "admin"]
            PROVE  conf \in Content
        <4>1. f \in Seq(Line)
          BY ConfigAssumption
        <4> QED  BY <3>1, <4>1 DEF Content
      <3> QED  BY <3>1 DEF ConfigInit
    <2> QED  BY <2>1, BoundsHold DEF ConfigInit, ConfigTypeOK, Seeding, Sound
  <1>2. Progress /\ TempRemoved
    BY DEF ConfigInit, Progress, TempRemoved
  <1>3. SettingsValid
    BY BoundsHold DEF ConfigInit, SettingsValid, Sound
  <1> QED  BY <1>1, <1>2, <1>3 DEF ConfigInv

LEMMA SeedSteps ==
  ASSUME ConfigInv,
         SeedStat \/ SeedMkstemp \/ SeedWrite \/ SeedFsync \/ SeedRename \/ SeedDirsync
  PROVE  ConfigInv'
  <1> USE SeedTyped, NoFileAssumption
  <1>0. /\ config' = config /\ pasv_range' = pasv_range /\ fp' = fp
        /\ pc # "serving" /\ pc' # "serving"
    BY DEF SeedStat, SeedMkstemp, SeedWrite, SeedFsync, SeedRename, SeedDirsync, Abandon
  <1>1. SettingsValid'
    BY <1>0 DEF ConfigInv, SettingsValid, InBounds
  <1>2. CASE SeedStat
    BY <1>0, <1>1, <1>2
       DEF SeedStat, ConfigInv, ConfigTypeOK, Progress, TempRemoved, Seeding
  <1>3. CASE Abandon /\ UNCHANGED conf
    BY <1>0, <1>1, <1>3
       DEF Abandon, ConfigInv, ConfigTypeOK, Progress, TempRemoved, Seeding
  <1>4. CASE SeedMkstemp
    <2>1. CASE Abandon
      BY <1>3, <2>1 DEF Abandon
    <2>2. CASE ~Abandon
      <3>1. /\ tmp' = [lines |-> <<>>, data |-> FALSE, name |-> FALSE,
                       by |-> "server"]
            /\ conf' = conf /\ pc' = "write"
        BY <1>4, <2>2 DEF SeedMkstemp
      <3>2. tmp' \in Content /\ tmp'.by = "server"
        BY <3>1 DEF Content
      <3> QED  BY <1>0, <1>1, <3>1, <3>2
                  DEF ConfigInv, ConfigTypeOK, Progress, TempRemoved, Seeding
    <2> QED  BY <2>1, <2>2
  <1>5. CASE SeedWrite
    <2>1. CASE Abandon
      BY <1>3, <2>1 DEF Abandon
    <2>2. CASE ~Abandon
      <3>1. PICK n \in 1..Len(Seed) :
               /\ tmp' = [tmp EXCEPT !.lines = SubSeq(Seed, 1, n)]
               /\ pc' = IF n = Len(Seed) THEN "fsync" ELSE "write"
        BY <1>5, <2>2 DEF SeedWrite
      <3>2. /\ SubSeq(Seed, 1, n) \in Seq(Line)
            /\ n = Len(Seed) => SubSeq(Seed, 1, n) = Seed
        <4>1. n \in 0..Len(Seed)
          OBVIOUS
        <4> QED  BY <4>1, Prefix
      <3>3. tmp \in Content /\ tmp.by = "server" /\ conf' = conf
        BY <1>5, <2>2 DEF SeedWrite, ConfigInv, ConfigTypeOK, Progress
      <3>4. tmp' \in Content /\ tmp'.by = "server" /\ tmp'.lines = SubSeq(Seed, 1, n)
        BY <3>1, <3>2, <3>3 DEF Content
      <3>5. (ConfigTypeOK /\ TempRemoved)'
        BY <1>0, <3>1, <3>3, <3>4 DEF ConfigInv, ConfigTypeOK, TempRemoved, Seeding
      <3>6. Progress'
        BY <3>1, <3>2, <3>3, <3>4 DEF ConfigInv, Progress
      <3> QED  BY <1>1, <3>5, <3>6 DEF ConfigInv
    <2> QED  BY <2>1, <2>2
  <1>6. CASE SeedFsync
    <2>1. CASE Abandon
      BY <1>3, <2>1 DEF Abandon
    <2>2. CASE ~Abandon
      <3>1. /\ tmp \in Content /\ tmp.by = "server" /\ tmp.lines = Seed
            /\ tmp' = [tmp EXCEPT !.data = TRUE] /\ conf' = conf /\ pc' = "rename"
        BY <1>6, <2>2 DEF SeedFsync, ConfigInv, ConfigTypeOK, Progress
      <3>2. /\ tmp' \in Content /\ tmp'.by = "server" /\ tmp'.lines = Seed
            /\ tmp'.data
        BY <3>1 DEF Content
      <3> QED  BY <1>0, <1>1, <3>1, <3>2
                  DEF ConfigInv, ConfigTypeOK, Progress, TempRemoved, Seeding
    <2> QED  BY <2>1, <2>2
  <1>7. CASE SeedRename
    <2>1. CASE Abandon
      BY <1>3, <2>1 DEF Abandon
    <2>2. CASE ~Abandon
      BY <1>0, <1>1, <1>7, <2>2
         DEF SeedRename, ConfigInv, ConfigTypeOK, Progress, TempRemoved, Seeding
    <2> QED  BY <2>1, <2>2
  <1>8. CASE SeedDirsync
    <2>1. /\ conf \in Content /\ pc' = "fopen" /\ tmp' = tmp
          /\ conf' = conf \/ conf' = [conf EXCEPT !.name = TRUE]
      BY <1>8 DEF SeedDirsync, ConfigInv, ConfigTypeOK, Progress
    <2>2. /\ conf' \in Content /\ conf'.by = conf.by /\ conf'.lines = conf.lines
          /\ conf'.data = conf.data
      BY <2>1 DEF Content
    <2> QED  BY <1>0, <1>1, <1>8, <2>1, <2>2
                DEF SeedDirsync, ConfigInv, ConfigTypeOK, Progress, TempRemoved, Seeding
  <1> QED  BY <1>2, <1>4, <1>5, <1>6, <1>7, <1>8

LEMMA ReadSteps ==
  ASSUME ConfigInv,
         StartServer \/ ReadOpen \/ ReadLine \/ ReadEnd \/ init_server_state
  PROVE  ConfigInv'
  <1>0. Sound(config)
    BY DEF ConfigInv, ConfigTypeOK, SettingsValid, Sound
  <1>1. /\ conf' = conf /\ tmp' = tmp
        /\ pc \notin Seeding
        /\ pc' \notin {"mkstemp", "write", "fsync", "rename", "dirsync"}
    BY DEF StartServer, ReadOpen, ReadLine, ReadEnd, init_server_state, Seeding
  <1>2. (Progress /\ TempRemoved)'
    BY <1>1 DEF ConfigInv, Progress, TempRemoved
  <1>3. CASE StartServer
    BY <1>2, <1>3, BoundsHold DEF StartServer, ConfigInv, ConfigTypeOK, SettingsValid, Sound, InBounds
  <1>4. CASE ReadOpen
    <2>1. fp' \in Seq(Line)
      BY <1>4 DEF ReadOpen, ConfigInv, ConfigTypeOK, Content
    <2> QED  BY <1>2, <1>4, <2>1 DEF ReadOpen, ConfigInv, ConfigTypeOK, SettingsValid, InBounds
  <1>5. CASE ReadLine
    <2>1. Head(fp) \in Line /\ Tail(fp) \in Seq(Line)
      BY <1>5 DEF ReadLine, ConfigInv, ConfigTypeOK
    <2>2. Sound(config')
      BY <1>0, <1>5, <2>1, AssignTyped DEF ReadLine
    <2> QED  BY <1>2, <1>5, <2>1, <2>2
                DEF ReadLine, ConfigInv, ConfigTypeOK, SettingsValid, Sound, InBounds
  <1>6. CASE ReadEnd
    <2>1. Sound(config')
      BY <1>0, <1>6, ValidateTyped DEF ReadEnd
    <2> QED  BY <1>2, <1>6, <2>1 DEF ReadEnd, ConfigInv, ConfigTypeOK, SettingsValid, Sound, InBounds
  <1>7. CASE init_server_state
    <2>1. /\ config.passive_port_start \in Int /\ config.passive_port_end \in Int
          /\ 1024 <= config.passive_port_start /\ config.passive_port_start <= 65535
          /\ 1024 <= config.passive_port_end /\ config.passive_port_end <= 65535
      BY <1>0, PortsSound
    <2>2. CASE pc' = "serving"
      <3>1. pasv_range' = connections_init_pasv_range(config.passive_port_start,
                                                      config.passive_port_end)
        BY <1>7, <2>2 DEF init_server_state
      <3>2. /\ pasv_range' \in [start : Int, end : Int]
            /\ 1024 <= pasv_range'.start /\ pasv_range'.start <= pasv_range'.end
            /\ pasv_range'.end <= 65535
        <4>1. PICK a \in Int : a = config.passive_port_start
          BY <2>1
        <4>2. PICK b \in Int : b = config.passive_port_end
          BY <2>1
        <4>3. 1024 <= a /\ a <= 65535 /\ 1024 <= b /\ b <= 65535
          BY <2>1, <4>1, <4>2
        <4>4. pasv_range' = connections_init_pasv_range(a, b)
          BY <3>1, <4>1, <4>2
        <4> QED  BY <4>3, <4>4, RangeTyped
      <3> QED  BY <1>2, <1>7, <3>2
                  DEF init_server_state, ConfigInv, ConfigTypeOK, SettingsValid, InBounds
    <2>3. CASE pc' = "down" /\ UNCHANGED pasv_range
      BY <1>2, <1>7, <2>3 DEF init_server_state, ConfigInv, ConfigTypeOK, SettingsValid, InBounds
    <2> QED  BY <1>7, <2>2, <2>3 DEF init_server_state
  <1> QED  BY <1>3, <1>4, <1>5, <1>6, <1>7

LEMMA SurroundingSteps ==
  ASSUME ConfigInv, Edit \/ Crash
  PROVE  ConfigInv'
  <1>1. CASE Edit
    <2>1. PICK f \in Files : conf' = [lines |-> f, data |-> TRUE,
                                      name |-> TRUE, by |-> "admin"]
      BY <1>1 DEF Edit
    <2>2. conf' \in Content /\ conf' # NoFile /\ conf'.by = "admin"
      <3>1. f \in Seq(Line)
        BY ConfigAssumption
      <3>2. conf' \in Content /\ conf'.by = "admin"
        BY <2>1, <3>1 DEF Content
      <3> QED  BY <3>2, NoFileAssumption
    <2> QED  BY <1>1, <2>2
                DEF Edit, ConfigInv, ConfigTypeOK, Progress, TempRemoved, SettingsValid, InBounds
  <1>2. CASE Crash
    <2>1. /\ pc' = "down" /\ tmp' = NoFile /\ fp' = <<>>
          /\ config' = config /\ pasv_range' = pasv_range
      BY <1>2 DEF Crash, Killed, PowerFails, Dies
    <2>2. /\ conf' \in Content \cup {NoFile}
          /\ conf' # NoFile /\ conf'.by = "server" => conf'.lines = Seed /\ conf'.data
      <3>1. CASE conf' = conf \/ conf' = NoFile
        BY <3>1 DEF ConfigInv, ConfigTypeOK, Progress
      <3>2. CASE conf # NoFile /\ conf' # NoFile /\ conf' \in Survivors(conf)
        <4>1. conf \in Content
          BY <3>2 DEF ConfigInv, ConfigTypeOK
        <4>2. PICK n \in IF conf.data THEN {Len(conf.lines)} ELSE 0..Len(conf.lines) :
                 conf' = [conf EXCEPT !.lines = SubSeq(conf.lines, 1, n),
                                      !.data = TRUE, !.name = TRUE]
          BY <3>2 DEF Survivors
        <4>3. conf.lines \in Seq(Line) /\ n \in 0..Len(conf.lines)
          BY <4>1, <4>2 DEF Content
        <4>4. /\ SubSeq(conf.lines, 1, n) \in Seq(Line)
              /\ n = Len(conf.lines) => SubSeq(conf.lines, 1, n) = conf.lines
          BY <4>3, Prefix
        <4>5. /\ conf' \in Content /\ conf'.data /\ conf'.by = conf.by
              /\ conf'.lines = SubSeq(conf.lines, 1, n)
          BY <4>1, <4>2, <4>4 DEF Content
        <4> QED  BY <3>2, <4>2, <4>4, <4>5 DEF ConfigInv, Progress
      <3> QED  BY <1>2, <3>1, <3>2 DEF Crash, Killed, PowerFails
    <2> QED  BY <2>1, <2>2
                DEF ConfigInv, ConfigTypeOK, Progress, TempRemoved, SettingsValid, InBounds
  <1> QED  BY <1>1, <1>2

LEMMA ConfigStutter ==
  ASSUME ConfigInv, UNCHANGED configVars
  PROVE  ConfigInv'
  BY DEF configVars, ConfigInv, ConfigTypeOK, Progress, TempRemoved, SettingsValid, InBounds

LEMMA ConfigStep == ConfigInv /\ [Next]_vars => ConfigInv'
  BY SeedSteps, ReadSteps, SurroundingSteps, ConfigStutter
     DEF Next, vars, ConfigNext, StartStep

LEMMA ConfigInvariant == Spec => []ConfigInv
  <1>1. Init => ConfigInv
    BY ConfigStart DEF Init
  <1> QED  BY <1>1, ConfigStep, PTL DEF Spec

(* Killed or without power at any step of the seeding, for any content of  *)
(* any length, the server never leaves a seeded file that is cut short.    *)
THEOREM SeedAtomic == Spec => []ConfigWhole
  <1>1. ConfigInv => ConfigWhole
    BY DEF ConfigInv, Progress, ConfigWhole
  <1> QED  BY <1>1, ConfigInvariant, PTL

(* Every return of seed_default_config_if_missing unlinks or renames the   *)
(* temporary file.                                                         *)
THEOREM NoLitter == Spec => []TempRemoved
  <1>1. ConfigInv => TempRemoved
    BY DEF ConfigInv
  <1> QED  BY <1>1, ConfigInvariant, PTL

(* Whatever a configuration file of any length says, the settings are in   *)
(* their bounds and the server runs with a range that is not empty.        *)
THEOREM SettingsInBounds == Spec => []SettingsValid
  <1>1. ConfigInv => SettingsValid
    BY DEF ConfigInv
  <1> QED  BY <1>1, ConfigInvariant, PTL

-----------------------------------------------------------------------------
(* The search for a port                                                   *)

PortTypeOK ==
    /\ pasv_port \in [Sessions -> Ports \cup {None}]
    /\ listener \in [Sessions -> Ports \cup {None}]
    /\ told \in [Sessions -> Ports \cup {None}]

PortInv ==
    /\ PortTypeOK
    /\ Quiet
    /\ Bounded
    /\ NeverRefused
    /\ ToldIsListening
    /\ Room => Thinning

LEMMA PortsAre ==
  /\ \A x \in Ports : x \in Int /\ 0 <= x /\ x <= 65535
  /\ \A x \in Int : 0 <= x /\ x <= 65535 => x \in Ports
  <1>1. UINT16_MAX \in Int
    BY DEF UINT16_MAX
  <1>2. \A x \in Ports : x \in Int /\ 0 <= x /\ x <= UINT16_MAX
    BY <1>1 DEF Ports
  <1>3. \A x \in Int : 0 <= x /\ x <= UINT16_MAX => x \in Ports
    BY <1>1 DEF Ports
  <1> QED  BY <1>2, <1>3 DEF UINT16_MAX

LEMMA NoneIsNoPort == None \notin Int
  BY PortsAssumption

(* What a running server's range is.                                       *)
LEMMA RangeFacts ==
  ASSUME ConfigInv, pc = "serving"
  PROVE  /\ pasv_range.start \in Int /\ pasv_range.end \in Int
         /\ 1024 <= pasv_range.start /\ pasv_range.start <= pasv_range.end
         /\ pasv_range.end <= 65535
  BY DEF ConfigInv, ConfigTypeOK, SettingsValid

LEMMA PositionTyped ==
  ASSUME PortTypeOK, NEW s \in Sessions
  PROVE  Position(s) \in Int \cup {None}
  BY PortsAre DEF PortTypeOK, Position

LEMMA SetsFinite ==
  ASSUME ConfigInv, NEW p \in Int
  PROVE  /\ IsFiniteSet(Sessions) /\ IsFiniteSet(Beyond(p)) /\ IsFiniteSet(Below(p))
         /\ Cardinality(Sessions) \in Nat /\ Cardinality(Beyond(p)) \in Nat
         /\ Cardinality(Below(p)) \in Nat
  <1>1. IsFiniteSet(Sessions) /\ Beyond(p) \subseteq Sessions
    BY PortsAssumption DEF Beyond
  <1>2. pasv_range.start \in Int
    BY DEF ConfigInv, ConfigTypeOK
  <1>3. IsFiniteSet(pasv_range.start..(p - 1))
    BY <1>2, FS_Interval
  <1>4. IsFiniteSet(Beyond(p)) /\ IsFiniteSet(Below(p))
    BY <1>1, <1>3, FS_Subset DEF Below
  <1> QED  BY <1>1, <1>4, FS_CardinalityType

(* The sessions at port q + 1 or beyond once s has gone on from port q.    *)
Passing(s, q) ==
    {r \in Sessions : r = s \/ (Position(r) # None /\ Position(r) >= q + 1)}

(* A session that finds port q in use goes on with fewer sessions than     *)
(* were there at q, unless another program has q: the one that has q stays.*)
LEMMA Advance ==
  ASSUME ConfigInv, PortTypeOK, Quiet, Thinning, pc = "serving",
         NEW s \in Sessions, NEW q \in Int, q = pasv_port[s], NextPort(s)
  PROVE  Cardinality(Passing(s, q)) + Cardinality(Below(q + 1))
            <= Cardinality(Sessions)
  <1>1. q \in pasv_range.start..pasv_range.end /\ Position(s) = q
    BY NoneIsNoPort DEF NextPort, Quiet, Position
  <1>2. s \in Beyond(q)
    BY <1>1, NoneIsNoPort DEF Beyond
  <1>3. Cardinality(Beyond(q)) + Cardinality(Below(q)) <= Cardinality(Sessions)
    BY <1>1, <1>2 DEF Thinning
  <1>4. /\ IsFiniteSet(Beyond(q)) /\ IsFiniteSet(Below(q))
        /\ Cardinality(Sessions) \in Nat /\ Cardinality(Beyond(q)) \in Nat
        /\ Cardinality(Below(q)) \in Nat
    BY SetsFinite
  <1>5. Passing(s, q) \subseteq Beyond(q)
    BY <1>2, PositionTyped DEF Passing, Beyond
  <1>6. pasv_range.start \in Int /\ pasv_range.start <= q
    BY <1>1, RangeFacts
  <1>7. CASE q \in Taken
    <2>1. Below(q + 1) = Below(q)
      BY <1>6, <1>7 DEF Below
    <2>2. /\ Cardinality(Passing(s, q)) \in Nat
          /\ Cardinality(Passing(s, q)) <= Cardinality(Beyond(q))
      BY <1>4, <1>5, FS_Subset, FS_CardinalityType
    <2> QED  BY <1>3, <1>4, <2>1, <2>2
  <1>8. CASE q \notin Taken
    <2>1. PICK t \in Sessions : listener[t] = q
      BY <1>8 DEF NextPort, InUse
    <2>2. Position(t) = q /\ t # s
      BY <2>1, NoneIsNoPort DEF Position, Quiet
    <2>3. t \in Beyond(q) /\ t \notin Passing(s, q)
      BY <2>2, NoneIsNoPort DEF Beyond, Passing
    <2>4. /\ IsFiniteSet(Beyond(q) \ {t})
          /\ Cardinality(Beyond(q) \ {t}) = Cardinality(Beyond(q)) - 1
      BY <1>4, <2>3, FS_RemoveElement
    <2>5. /\ Cardinality(Passing(s, q)) \in Nat
          /\ Cardinality(Passing(s, q)) <= Cardinality(Beyond(q) \ {t})
      BY <1>5, <2>3, <2>4, FS_Subset, FS_CardinalityType
    <2>6. Below(q + 1) = Below(q) \cup {q} /\ q \notin Below(q)
      BY <1>6, <1>8 DEF Below
    <2>7. Cardinality(Below(q + 1)) = Cardinality(Below(q)) + 1
      BY <1>4, <2>6, FS_AddElement
    <2> QED  BY <1>3, <1>4, <2>4, <2>5, <2>7
  <1> QED  BY <1>7, <1>8

(* With room for every session, none goes on from the last port.           *)
LEMMA NotPastTheEnd ==
  ASSUME ConfigInv, PortInv, Room, pc = "serving",
         NEW s \in Sessions, NextPort(s)
  PROVE  pasv_port[s] \in pasv_range.start..(pasv_range.end - 1)
  <1>1. PICK q \in Int : q = pasv_port[s] /\ q \in pasv_range.start..pasv_range.end
    BY RangeFacts DEF NextPort
  <1>2. SUFFICES ASSUME q = pasv_range.end PROVE FALSE
    BY <1>1, RangeFacts
  <1>3. Cardinality(Passing(s, q)) + Cardinality(Below(q + 1))
            <= Cardinality(Sessions)
    BY <1>1, Advance DEF PortInv
  <1>4. Below(q + 1) = Free
    BY <1>2, RangeFacts DEF Below, Free
  <1>5. s \in Passing(s, q) /\ IsFiniteSet(Passing(s, q))
    <2>1. Passing(s, q) \subseteq Sessions /\ s \in Passing(s, q)
      BY DEF Passing
    <2> QED  BY <2>1, FS_Subset, PortsAssumption
  <1>6. Cardinality(Passing(s, q)) \in Nat /\ Cardinality(Passing(s, q)) # 0
    BY <1>5, FS_CardinalityType, FS_EmptySet
  <1>7. Cardinality(Below(q + 1)) \in Nat /\ Cardinality(Sessions) \in Nat
    BY SetsFinite
  <1> QED  BY <1>3, <1>4, <1>6, <1>7 DEF Room

(* Sessions that leave, or begin at the first port, keep the thinning.     *)
LEMMA LeaveOrBegin ==
  ASSUME ConfigInv, PortTypeOK, Thinning, UNCHANGED pasv_range,
         \A r \in Sessions : Position(r)' \in {Position(r), None, pasv_range.start}
  PROVE  Thinning'
  <1> SUFFICES ASSUME NEW p \in pasv_range.start..pasv_range.end, Beyond(p)' # {}
               PROVE  Cardinality(Beyond(p)') + Cardinality(Below(p))
                         <= Cardinality(Sessions)
    BY DEF Thinning, Below
  <1>1. pasv_range.start \in Int /\ pasv_range.end \in Int /\ p \in Int
    BY DEF ConfigInv, ConfigTypeOK
  <1>2. /\ IsFiniteSet(Sessions) /\ IsFiniteSet(Beyond(p)) /\ IsFiniteSet(Below(p))
        /\ Cardinality(Sessions) \in Nat /\ Cardinality(Beyond(p)) \in Nat
        /\ Cardinality(Below(p)) \in Nat
    BY <1>1, SetsFinite
  <1>3. Beyond(p)' = {r \in Sessions : Position(r)' # None /\ Position(r)' >= p}
    BY DEF Beyond
  <1>4. CASE p = pasv_range.start
    <2>1. Below(p) = {} /\ Beyond(p)' \subseteq Sessions
      BY <1>1, <1>3, <1>4 DEF Below
    <2>2. /\ Cardinality(Below(p)) = 0 /\ Cardinality(Beyond(p)') \in Nat
          /\ Cardinality(Beyond(p)') <= Cardinality(Sessions)
      BY <1>2, <2>1, FS_EmptySet, FS_Subset, FS_CardinalityType
    <2> QED  BY <1>2, <2>2
  <1>5. CASE p # pasv_range.start
    <2>1. Beyond(p)' \subseteq Beyond(p)
      <3>1. \A r \in Sessions : Position(r) \in Int \cup {None}
        BY PositionTyped
      <3> QED  BY <1>1, <1>3, <1>5, <3>1, NoneIsNoPort DEF Beyond
    <2>2. Cardinality(Beyond(p)) + Cardinality(Below(p)) <= Cardinality(Sessions)
      BY <2>1 DEF Thinning
    <2>3. /\ Cardinality(Beyond(p)') \in Nat
          /\ Cardinality(Beyond(p)') <= Cardinality(Beyond(p))
      BY <1>2, <2>1, FS_Subset, FS_CardinalityType
    <2> QED  BY <1>2, <2>2, <2>3
  <1> QED  BY <1>4, <1>5

(* Without sessions that search or listen, nothing is left to show.        *)
Idle ==
    /\ PortTypeOK
    /\ \A s \in Sessions : /\ pasv_port[s] = None /\ listener[s] = None
                           /\ told[s] = None

LEMMA IdleSuffices == Idle => PortInv
  <1> SUFFICES ASSUME Idle PROVE PortInv
    OBVIOUS
  <1> USE DEF Idle
  <1>1. \A s \in Sessions : Position(s) = None
    BY DEF Position
  <1>2. Thinning
    BY <1>1 DEF Thinning, Beyond
  <1>3. Quiet /\ Bounded /\ NeverRefused /\ ToldIsListening
    BY <1>1 DEF Quiet, Bounded, NeverRefused, ToldIsListening
  <1> QED  BY <1>2, <1>3 DEF PortInv

LEMMA PortStart == Init => PortInv
  <1> SUFFICES ASSUME Init PROVE PortInv
    OBVIOUS
  <1>1. Idle
    BY DEF Init, Idle, PortTypeOK
  <1> QED  BY <1>1, IdleSuffices

(* The start of the server touches no listener, and changes the range only *)
(* while there are no sessions.                                            *)
LEMMA ConfigKeepsPorts ==
  ASSUME PortInv, ConfigNext, UNCHANGED portVars
  PROVE  PortInv'
  <1>1. PortTypeOK'
    BY DEF PortInv, PortTypeOK, portVars
  <1>2. CASE pc # "serving"
    <2>1. \A s \in Sessions : /\ pasv_port[s] = None /\ listener[s] = None
                             /\ told[s] = None
      BY <1>2 DEF PortInv, Quiet, Position
    <2>2. Idle'
      BY <1>1, <2>1 DEF portVars, Idle
    <2> QED  BY <2>2, IdleSuffices, PTL
  <1>3. CASE pc = "serving"
    BY <1>3 DEF ConfigNext, StartServer, StartStep, SeedStat, SeedMkstemp, SeedWrite,
                SeedFsync, SeedRename, SeedDirsync, ReadOpen, ReadLine, ReadEnd,
                init_server_state, Edit
  <1> QED  BY <1>2, <1>3

LEMMA CrashKeepsPorts ==
  ASSUME PortInv, NoListeners
  PROVE  PortInv'
  <1>1. Idle'
    BY DEF NoListeners, PortTypeOK, Idle
  <1> QED  BY <1>1, IdleSuffices, PTL

(* What an action of one session does to the positions.                    *)
Turn(s, a, b, c) ==
    /\ pasv_port' = [pasv_port EXCEPT ![s] = a]
    /\ listener' = [listener EXCEPT ![s] = b]
    /\ told' = [told EXCEPT ![s] = c]

Moved(s, a, b, c) ==
    /\ pc' = "serving" /\ pasv_range' = pasv_range /\ Room' = Room
    /\ \A r \in Sessions :
          /\ pasv_port'[r] = IF r = s THEN a ELSE pasv_port[r]
          /\ listener'[r] = IF r = s THEN b ELSE listener[r]
          /\ told'[r] = IF r = s THEN c ELSE told[r]
          /\ Position(r)' = IF r # s THEN Position(r)
                            ELSE IF b # None THEN b ELSE a

LEMMA OneSession ==
  ASSUME ConfigInv, PortInv, pc = "serving", UNCHANGED configVars,
         NEW s \in Sessions,
         NEW a \in Ports \cup {None}, NEW b \in Ports \cup {None},
         NEW c \in Ports \cup {None}, Turn(s, a, b, c),
         a = None \/ b = None, b = None => c = None
  PROVE  PortTypeOK' /\ Quiet' /\ Moved(s, a, b, c)
  <1>1. PortTypeOK'
    BY DEF PortInv, PortTypeOK, Turn
  <1>2. pc' = "serving" /\ pasv_range' = pasv_range /\ Room' = Room
    BY DEF configVars, Room, Free
  <1>3. \A r \in Sessions :
           /\ pasv_port'[r] = IF r = s THEN a ELSE pasv_port[r]
           /\ listener'[r] = IF r = s THEN b ELSE listener[r]
           /\ told'[r] = IF r = s THEN c ELSE told[r]
    BY DEF PortInv, PortTypeOK, Turn
  <1>4. \A r \in Sessions : Position(r)' = IF r # s THEN Position(r)
                                           ELSE IF b # None THEN b ELSE a
    BY <1>3 DEF Position
  <1>5. Quiet'
    BY <1>2, <1>3 DEF Quiet, PortInv
  <1> QED  BY <1>1, <1>2, <1>3, <1>4, <1>5 DEF Moved

(* A session whose counter ends in the range, or stops, and that listens,  *)
(* if at all, on the port it was trying.                                   *)
LEMMA InRangeStep ==
  ASSUME ConfigInv, PortInv, pc = "serving", UNCHANGED configVars,
         NEW s \in Sessions,
         NEW a \in Ports \cup {None}, NEW b \in Ports \cup {None},
         NEW c \in Ports \cup {None}, Turn(s, a, b, c),
         a = None \/ b = None, c = b,
         a \in {None, pasv_range.start},
         b # None => b = pasv_port[s] /\ b \in pasv_range.start..pasv_range.end
  PROVE  PortInv'
  <1>1. PortTypeOK' /\ Quiet' /\ Moved(s, a, b, c)
    BY OneSession
  <1> USE DEF Moved
  <1>2. Bounded' /\ NeverRefused'
    BY <1>1, RangeFacts DEF PortInv, Bounded, NeverRefused
  <1>3. ToldIsListening'
    BY <1>1 DEF PortInv, ToldIsListening
  <1>4. Position(s)' \in {Position(s), None, pasv_range.start}
    BY <1>1, RangeFacts, NoneIsNoPort DEF PortInv, Quiet, Position
  <1>5. \A r \in Sessions : Position(r)' \in {Position(r), None, pasv_range.start}
    BY <1>1, <1>4
  <1>6. Room' => Thinning'
    BY <1>1, <1>5, LeaveOrBegin DEF PortInv
  <1> QED  BY <1>1, <1>2, <1>3, <1>6 DEF PortInv

LEMMA SearchSteps ==
  ASSUME ConfigInv, PortInv, UNCHANGED configVars, NEW s \in Sessions, SessionNext(s)
  PROVE  PortInv'
  <1>1. PortTypeOK /\ Quiet
    BY DEF PortInv
  <1>2. /\ pasv_port[s] \in Ports \cup {None} /\ listener[s] \in Ports \cup {None}
        /\ told[s] \in Ports \cup {None} /\ None \notin Ports
    BY <1>1, PortsAre, NoneIsNoPort DEF PortTypeOK
  <1>3. pc = "serving"
    BY <1>1, <1>2, PortsAre, NoneIsNoPort
       DEF SessionNext, data_connection_listener_config, TryPort, Bind, BindZero,
           NextPort, Refuse, CloseListener, Quiet, Position
  <1>4. /\ pasv_range.start \in Int /\ pasv_range.end \in Int
        /\ 1024 <= pasv_range.start /\ pasv_range.start <= pasv_range.end
        /\ pasv_range.end <= 65535
    BY <1>3, RangeFacts
  <1>5. CASE data_connection_listener_config(s)
    <2>1. PICK a \in Ports \cup {None} : /\ a \in {None, pasv_range.start}
                                       /\ pasv_port' = [pasv_port EXCEPT ![s] = a]
      BY <1>1, <1>4, <1>5, PortsAre DEF data_connection_listener_config, PortTypeOK
    <2>2. Turn(s, a, None, None)
      BY <1>5, <2>1 DEF data_connection_listener_config, Turn
    <2> QED  BY <1>3, <2>1, <2>2, InRangeStep
  <1>6. CASE Bind(s)
    <2>1. Turn(s, None, pasv_port[s], pasv_port[s])
      BY <1>6 DEF Bind, Turn
    <2>2. pasv_port[s] \in pasv_range.start..pasv_range.end
      BY <1>6 DEF Bind
    <2> QED  BY <1>2, <1>3, <2>1, <2>2, InRangeStep
  <1>7. CASE CloseListener(s)
    <2>1. pasv_port[s] = None
      BY <1>1, <1>7 DEF CloseListener, Quiet
    <2>2. pasv_port' = [pasv_port EXCEPT ![s] = None]
      BY <1>1, <1>7, <2>1 DEF CloseListener, PortTypeOK
    <2>3. Turn(s, None, None, None)
      BY <1>7, <2>2 DEF CloseListener, Turn
    <2> QED  BY <1>3, <2>3, InRangeStep
  <1>8. CASE Refuse(s)
    <2>1. listener[s] = None /\ told[s] = None
      BY <1>1, <1>8 DEF Refuse, Quiet
    <2>2. /\ listener' = [listener EXCEPT ![s] = None]
          /\ told' = [told EXCEPT ![s] = None]
      BY <1>1, <1>8, <2>1 DEF Refuse, PortTypeOK
    <2>3. Turn(s, None, None, None)
      BY <1>8, <2>2 DEF Refuse, Turn
    <2> QED  BY <1>3, <2>3, InRangeStep
  <1>9. CASE BindZero(s)
    <2>1. PICK p \in Ephemeral : listener' = [listener EXCEPT ![s] = p]
      BY <1>9 DEF BindZero
    <2>2. p \in Ports /\ 0 \in Ports
      BY PortsAre, PortsAssumption DEF Ports
    <2>3. Turn(s, None, p, 0)
      BY <1>9, <2>1 DEF BindZero, Turn
    <2>4. ~Room /\ ~(pasv_range.end < 65535)
      BY <1>3, <1>4, <1>9, NoneIsNoPort DEF BindZero, PortInv, NeverRefused, Bounded
    <2>5. /\ PortTypeOK' /\ Quiet' /\ pc' = "serving"
          /\ pasv_range' = pasv_range /\ Room' = Room
      <3>1. p # None
        BY <1>2, <2>2
      <3> QED  BY <1>3, <2>2, <2>3, <3>1, OneSession DEF Moved
    <2> QED  BY <2>4, <2>5 DEF PortInv, Bounded, NeverRefused, ToldIsListening
  <1>10. CASE NextPort(s)
    <2>1. PICK q \in Int : q = pasv_port[s] /\ q \in pasv_range.start..pasv_range.end
      BY <1>4, <1>10 DEF NextPort
    <2>2. PICK a \in Int : a = (q + 1) % 65536
      BY <2>1
    <2>3. /\ a \in Ports
          /\ q < 65535 => a = q + 1
      BY <1>4, <2>1, <2>2, PortsAre
    <2>4. listener[s] = None /\ told[s] = None
      BY <1>1, <1>2, <1>10, <2>1, NoneIsNoPort DEF NextPort, Quiet
    <2>5. Turn(s, a, None, None)
      <3>1. pasv_port' = [pasv_port EXCEPT ![s] = a]
        BY <1>10, <2>1, <2>2 DEF NextPort
      <3>2. listener' = [listener EXCEPT ![s] = None] /\ told' = [told EXCEPT ![s] = None]
        BY <1>1, <1>10, <2>4 DEF NextPort, PortTypeOK
      <3> QED  BY <3>1, <3>2 DEF Turn
    <2>6. /\ PortTypeOK' /\ Quiet' /\ pc' = "serving"
          /\ pasv_range' = pasv_range /\ Room' = Room
          /\ \A r \in Sessions :
                /\ pasv_port'[r] = IF r = s THEN a ELSE pasv_port[r]
                /\ listener'[r] = IF r = s THEN None ELSE listener[r]
                /\ told'[r] = IF r = s THEN None ELSE told[r]
                /\ Position(r)' = IF r # s THEN Position(r) ELSE a
      <3>1. PortTypeOK' /\ Quiet' /\ Moved(s, a, None, None)
        <4>1. a \in Ports \cup {None} /\ None \in Ports \cup {None}
          BY <2>3
        <4> QED  BY <1>3, <2>5, <4>1, OneSession
      <3> QED  BY <3>1 DEF Moved
    <2>7. Room => q < pasv_range.end
      BY <1>3, <1>4, <1>10, <2>1, NotPastTheEnd
    <2>8. Bounded' /\ NeverRefused'
      <3>1. pasv_range.end < 65535 => a \in pasv_range.start..(pasv_range.end + 1)
        BY <1>4, <2>1, <2>3
      <3>2. Room => a \in pasv_range.start..pasv_range.end
        BY <1>4, <2>1, <2>3, <2>7
      <3>3. Bounded'
        BY <1>3, <2>6, <3>1 DEF PortInv, Bounded
      <3>4. NeverRefused'
        BY <1>3, <2>6, <3>2 DEF PortInv, NeverRefused
      <3> QED  BY <3>3, <3>4
    <2>9. ToldIsListening'
      BY <2>6 DEF PortInv, ToldIsListening
    <2>10. Room' => Thinning'
      <3> SUFFICES ASSUME Room, NEW p \in pasv_range.start..pasv_range.end,
                          Beyond(p)' # {}
                   PROVE  Cardinality(Beyond(p)') + Cardinality(Below(p))
                             <= Cardinality(Sessions)
        BY <2>6 DEF Thinning, Below
      <3>1. p \in Int /\ a = q + 1 /\ Thinning
        BY <1>4, <2>1, <2>3, <2>7 DEF PortInv
      <3>2. Position(s) = q
        BY <2>1, <2>4 DEF Position
      <3>3. Beyond(p)' = {r \in Sessions : Position(r)' # None /\ Position(r)' >= p}
        BY DEF Beyond
      <3>4. \A r \in Sessions : Position(r)' = IF r # s THEN Position(r) ELSE q + 1
        BY <2>6, <3>1
      <3>5. CASE p = q + 1
        <4>1. Beyond(p)' = Passing(s, q)
          BY <2>1, <3>3, <3>4, <3>5, NoneIsNoPort DEF Passing
        <4> QED  BY <1>1, <1>3, <1>10, <2>1, <3>1, <3>5, <4>1, Advance
      <3>6. CASE p # q + 1
        <4>1. \A r \in Sessions : Position(r) \in Int \cup {None}
          BY <1>1, PositionTyped
        <4>2. Beyond(p)' = Beyond(p)
          BY <2>1, <3>1, <3>2, <3>3, <3>4, <3>6, <4>1, NoneIsNoPort DEF Beyond
        <4> QED  BY <3>1, <4>2 DEF Thinning
      <3> QED  BY <3>5, <3>6
    <2> QED  BY <2>6, <2>8, <2>9, <2>10 DEF PortInv
  <1> QED  BY <1>5, <1>6, <1>7, <1>8, <1>9, <1>10 DEF SessionNext, TryPort

LEMMA PortStutter ==
  ASSUME PortInv, UNCHANGED vars
  PROVE  PortInv'
  <1>1. /\ pc' = pc /\ pasv_range' = pasv_range /\ pasv_port' = pasv_port
        /\ listener' = listener /\ told' = told
    BY DEF vars, configVars, portVars
  <1>2. Thinning' = Thinning /\ Room' = Room
    BY <1>1 DEF Thinning, Beyond, Below, Position, Room, Free
  <1> QED  BY <1>1, <1>2 DEF PortInv, PortTypeOK, Quiet, Position, Bounded,
                             NeverRefused, ToldIsListening, Room, Free

LEMMA PortStep == ConfigInv /\ PortInv /\ [Next]_vars => PortInv'
  <1> SUFFICES ASSUME ConfigInv, PortInv, [Next]_vars PROVE PortInv'
    OBVIOUS
  <1>1. CASE ConfigNext /\ UNCHANGED portVars
    BY <1>1, ConfigKeepsPorts
  <1>2. CASE Crash /\ NoListeners
    BY <1>2, CrashKeepsPorts
  <1>3. CASE \E s \in Sessions : SessionNext(s) /\ UNCHANGED configVars
    BY <1>3, SearchSteps
  <1>4. CASE UNCHANGED vars
    BY <1>4, PortStutter
  <1> QED  BY <1>1, <1>2, <1>3, <1>4 DEF Next

LEMMA PortInvariant == Spec => [](ConfigInv /\ PortInv)
  <1>1. Init => ConfigInv /\ PortInv
    BY ConfigStart, PortStart DEF Init
  <1> QED  BY <1>1, ConfigStep, PortStep, PTL DEF Spec

(* The types of the start of the server and of the search.                 *)
THEOREM Typed == Spec => []TypeOK
  <1>1. ConfigInv /\ PortInv => TypeOK
    BY DEF ConfigInv, PortInv, PortTypeOK, TypeOK
  <1> QED  BY <1>1, PortInvariant, PTL

(* For any number of sessions that open and close listeners in any order,  *)
(* and any ports other programs have: with as many ports as sessions, the  *)
(* loop of data_connection_listener_config never runs past the range.      *)
THEOREM EnoughPorts == Spec => []NeverRefused
  <1>1. PortInv => NeverRefused
    BY DEF PortInv
  <1> QED  BY <1>1, PortInvariant, PTL

(* The port in the reply to PASV or EPSV is the listener's and in range,   *)
(* with enough ports or with a range that ends before 65535.               *)
THEOREM ToldTruly == Spec => []ToldIsListening
  <1>1. PortInv => ToldIsListening
    BY DEF PortInv
  <1> QED  BY <1>1, PortInvariant, PTL

=============================================================================
