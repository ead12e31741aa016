-------------------------------- MODULE Config --------------------------------
(***************************************************************************)
(* The start of the server: src/config_manager/config_manager.c seeds the  *)
(* configuration file if it is missing, through a temporary file, and      *)
(* reads it; init_server_state takes the range of passive ports from it.   *)
(*                                                                         *)
(* A file is a sequence of lines.  Every system call may fail, the process *)
(* may be killed and the machine may lose its power between any two of     *)
(* them.  What a power failure leaves depends on what was synced.          *)
(***************************************************************************)
EXTENDS Integers, Sequences

CONSTANTS
    NoFile,    \* a path that does not exist
    NaN,       \* a value that parse_int refuses
    Files      \* what the administrator may write

INT_MAX == 2147483647
UINT16_MAX == 65535

(* fill_default_configurations, the settings that are numbers.             *)
Default == [max_connections                |-> 10000,
            connection_accept_timeout      |-> 60,
            data_connection_accept_timeout |-> 9,
            passive_port_start             |-> 40000,
            passive_port_end               |-> 41000,
            port                           |-> 21]

Keys == DOMAIN Default

(* The bounds of assign_kv.                                                *)
Least == [max_connections                |-> 1,
          connection_accept_timeout      |-> 0,
          data_connection_accept_timeout |-> 0,
          passive_port_start             |-> 1024,
          passive_port_end               |-> 1024,
          port                           |-> 20]

Most == [max_connections                |-> INT_MAX,
         connection_accept_timeout      |-> INT_MAX,
         data_connection_accept_timeout |-> INT_MAX,
         passive_port_start             |-> 65535,
         passive_port_end               |-> 65535,
         port                           |-> 65535]

InBounds(c) == \A k \in Keys : c[k] >= Least[k] /\ c[k] <= Most[k]

(* A line that is no setting of these (a comment, a text) has key "other". *)
Line == [key : Keys \cup {"other"}, val : Int \cup {NaN}]

(* The default content, cut down to the settings that are numbers.         *)
Seed == << [key |-> "max_connections",                val |-> 10000],
           [key |-> "connection_accept_timeout",      val |-> 60],
           [key |-> "data_connection_accept_timeout", val |-> 9],
           [key |-> "passive_port_start",             val |-> 40000],
           [key |-> "passive_port_end",               val |-> 41000],
           [key |-> "port",                           val |-> 21] >>

ASSUME ConfigAssumption == /\ NaN \notin Int
                           /\ Files \subseteq Seq(Line)

Content == [lines : Seq(Line), data : BOOLEAN, name : BOOLEAN,
            by : {"server", "admin"}]

ASSUME NoFileAssumption == NoFile \notin Content

VARIABLES
    pc,          \* the system call that comes next, "serving" or "down"
    conf,        \* the configuration file; data and name: its content and
                 \* its directory entry are on the disk
    tmp,         \* the temporary file of mkstemp
    fp,          \* the lines that are still to be read
    config,      \* g_server_state.config
    pasv_range   \* g_server_state.pasv_range

configVars == <<pc, conf, tmp, fp, config, pasv_range>>

Seeding == {"mkstemp", "write", "fsync", "rename"}

ConfigTypeOK ==
    /\ pc \in Seeding \cup {"stat", "dirsync", "fopen", "fgets", "init",
                            "serving", "down"}
    /\ conf \in Content \cup {NoFile}
    /\ tmp \in Content \cup {NoFile}
    /\ fp \in Seq(Line)
    /\ config \in [Keys -> Int]
    /\ pasv_range \in [start : Int, end : Int]

ConfigInit ==
    /\ pc = "down"
    /\ conf = NoFile \/ \E f \in Files : conf = [lines |-> f, data |-> TRUE,
                                                 name |-> TRUE, by |-> "admin"]
    /\ tmp = NoFile
    /\ fp = <<>>
    /\ config = Default
    /\ pasv_range = [start |-> 0, end |-> 0]

-----------------------------------------------------------------------------
(* seed_default_config_if_missing                                          *)

(* read_configurations begins: fill_default_configurations.                *)
StartServer ==
    /\ pc = "down"
    /\ pc' = "stat"
    /\ config' = Default
    /\ UNCHANGED <<conf, tmp, fp, pasv_range>>

(* Only a file that is missing is seeded.                                  *)
SeedStat ==
    /\ pc = "stat"
    /\ \/ conf = NoFile /\ pc' = "mkstemp"
       \/ pc' = "fopen"      \* it exists, or stat fails
    /\ UNCHANGED <<conf, tmp, fp, config, pasv_range>>

(* The error paths: close, unlink, return -1, which nobody looks at.       *)
Abandon ==
    /\ pc' = "fopen"
    /\ tmp' = NoFile
    /\ UNCHANGED <<conf, fp, config, pasv_range>>

(* mkstemp and fchmod *)
SeedMkstemp ==
    /\ pc = "mkstemp"
    /\ \/ /\ pc' = "write"
          /\ tmp' = [lines |-> <<>>, data |-> FALSE, name |-> FALSE,
                     by |-> "server"]
          /\ UNCHANGED <<conf, fp, config, pasv_range>>
       \/ Abandon

(* A write takes some of what is left.                                     *)
SeedWrite ==
    /\ pc = "write"
    /\ \/ \E n \in 1..Len(Seed) :
             /\ n > Len(tmp.lines)
             /\ tmp' = [tmp EXCEPT !.lines = SubSeq(Seed, 1, n)]
             /\ pc' = IF n = Len(Seed) THEN "fsync" ELSE "write"
             /\ UNCHANGED <<conf, fp, config, pasv_range>>
       \/ Abandon

(* Mutant: only the file is closed.                                        *)
SeedClose ==
    /\ pc = "fsync"
    /\ \/ /\ pc' = "rename"
          /\ UNCHANGED <<tmp, conf, fp, config, pasv_range>>
       \/ Abandon

(* fsync and close *)
SeedFsync ==
    /\ pc = "fsync"
    /\ \/ /\ pc' = "rename"
          /\ tmp' = [tmp EXCEPT !.data = TRUE]
          /\ UNCHANGED <<conf, fp, config, pasv_range>>
       \/ Abandon

SeedRename ==
    /\ pc = "rename"
    /\ \/ /\ pc' = "dirsync"
          /\ conf' = tmp
          /\ tmp' = NoFile
          /\ UNCHANGED <<fp, config, pasv_range>>
       \/ Abandon

(* The directory is synced if it can be opened.                            *)
SeedDirsync ==
    /\ pc = "dirsync"
    /\ pc' = "fopen"
    /\ conf' \in {conf, [conf EXCEPT !.name = TRUE]}
    /\ UNCHANGED <<tmp, fp, config, pasv_range>>

-----------------------------------------------------------------------------
(* read_configurations                                                     *)

(* The defaults stay if the file cannot be opened; they are not validated. *)
ReadOpen ==
    /\ pc = "fopen"
    /\ \/ /\ conf # NoFile
          /\ fp' = conf.lines
          /\ pc' = "fgets"
       \/ /\ pc' = "init"
          /\ UNCHANGED fp
    /\ UNCHANGED <<conf, tmp, config, pasv_range>>

Set(c, key, val) == [c EXCEPT ![key] = val]

(* Mutant: the upper bound is forgotten.                                   *)
assign_any(c, l) ==
    IF l.key \in Keys /\ l.val \in Int /\ l.val >= Least[l.key]
    THEN Set(c, l.key, l.val)
    ELSE c

(* assign_kv: a value that is no number or out of bounds changes nothing.  *)
assign_kv(c, l) ==
    IF l.key \in Keys /\ l.val \in Int
         /\ l.val >= Least[l.key] /\ l.val <= Most[l.key]
    THEN Set(c, l.key, l.val)
    ELSE c

ReadLine ==
    /\ pc = "fgets"
    /\ fp # <<>>
    /\ config' = assign_kv(config, Head(fp))
    /\ fp' = Tail(fp)
    /\ UNCHANGED <<pc, conf, tmp, pasv_range>>

(* post_validate: the ends of the range are brought in bounds and order.   *)
InOrder(c, first, last) ==
    IF last < first
    THEN Set(Set(c, "passive_port_start", last), "passive_port_end", first)
    ELSE Set(Set(c, "passive_port_start", first), "passive_port_end", last)

post_validate(c) ==
    InOrder(c, IF c.passive_port_start < 1 THEN 1 ELSE c.passive_port_start,
               IF c.passive_port_end > 65535 THEN 65535 ELSE c.passive_port_end)

ReadEnd ==
    /\ pc = "fgets"
    /\ fp = <<>>
    /\ config' = post_validate(config)
    /\ pc' = "init"
    /\ UNCHANGED <<conf, tmp, fp, pasv_range>>

(* connections_init_pasv_range, whose fields have 16 bits.                 *)
connections_init_pasv_range(first, last) ==
    LET a == IF last < first THEN last ELSE first
        b == IF last < first THEN first ELSE last
    IN  [start |-> (IF a < 1 THEN 1 ELSE a) % 65536,
         end   |-> (IF b > 65535 THEN 65535 ELSE b) % 65536]

(* init_server_state and start_server_listener; without a certificate, or  *)
(* when the port is taken, the server exits.                               *)
init_server_state ==
    /\ pc = "init"
    /\ \/ /\ pc' = "serving"
          /\ pasv_range' = connections_init_pasv_range(config.passive_port_start,
                                                       config.passive_port_end)
       \/ /\ pc' = "down"
          /\ UNCHANGED pasv_range
    /\ UNCHANGED <<conf, tmp, fp, config>>

-----------------------------------------------------------------------------
(* Surroundings                                                            *)

(* The administrator writes the file, perhaps while the server seeds it.   *)
(* What is written while the server runs is left for when it is down.      *)
Edit ==
    /\ pc # "serving"
    /\ \E f \in Files :
          conf' = [lines |-> f, data |-> TRUE, name |-> TRUE, by |-> "admin"]
    /\ UNCHANGED <<pc, tmp, fp, config, pasv_range>>

(* The process ends; its temporary file, which no later start looks at,    *)
(* leaves the model.                                                       *)
Dies ==
    /\ pc # "down"
    /\ pc' = "down"
    /\ tmp' = NoFile
    /\ fp' = <<>>
    /\ UNCHANGED <<config, pasv_range>>

Killed == Dies /\ UNCHANGED conf

(* What a file may be after a power failure: cut anywhere if its content   *)
(* was not synced, missing if its directory entry was not.                 *)
Survivors(f) ==
    {[f EXCEPT !.lines = SubSeq(f.lines, 1, n), !.data = TRUE, !.name = TRUE] :
        n \in IF f.data THEN {Len(f.lines)} ELSE 0..Len(f.lines)}
    \cup (IF f.name THEN {} ELSE {NoFile})

PowerFails ==
    /\ Dies
    /\ conf' \in IF conf = NoFile THEN {NoFile} ELSE Survivors(conf)

-----------------------------------------------------------------------------
StartStep ==
    \/ SeedStat
    \/ SeedMkstemp
    \/ SeedWrite
    \/ SeedFsync
    \/ SeedRename
    \/ SeedDirsync
    \/ ReadOpen
    \/ ReadLine
    \/ ReadEnd
    \/ init_server_state

Crash == Killed \/ PowerFails

ConfigNext == StartServer \/ StartStep \/ Edit

-----------------------------------------------------------------------------
(* Properties                                                              *)

(* Whenever the process is killed or the power fails while a file is       *)
(* seeded, a server that starts later never finds a seeded file that was   *)
(* cut short: content before name, on the disk too.                        *)
ConfigWhole ==
    conf # NoFile /\ conf.by = "server" => conf.lines = Seed

(* Every way out of seed_default_config_if_missing that is not a crash     *)
(* removes the temporary file.                                             *)
TempRemoved == tmp # NoFile => pc \in Seeding

(* Whatever the file says, every setting stays within the bounds of        *)
(* assign_kv, and the server runs with a range of passive ports that is    *)
(* not empty and within them.                                              *)
SettingsValid ==
    /\ InBounds(config)
    /\ pc = "serving" => /\ 1024 <= pasv_range.start
                         /\ pasv_range.start <= pasv_range.end
                         /\ pasv_range.end <= 65535

=============================================================================
