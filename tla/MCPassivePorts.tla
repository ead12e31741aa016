---------------------------- MODULE MCPassivePorts ----------------------------
(***************************************************************************)
(* PassivePorts for TLC.  Each file makes a short range of ports: at the   *)
(* upper end of 16 bits, with the ends in the wrong order, with one end    *)
(* left at its default by a value out of bounds or a text for a number.    *)
(***************************************************************************)
EXTENDS PassivePorts

First(v) == [key |-> "passive_port_start", val |-> v]
Last(v)  == [key |-> "passive_port_end", val |-> v]
Comment  == [key |-> "other", val |-> NaN]

MCFiles == { <<First(65532), Comment, Last(65535)>>,
             <<First(65535), Last(65534)>>,
             <<First(65532), Last(65534)>>,
             <<First(40999), Last(65536)>>,
             <<First(1023), Last(40001)>>,
             <<First(NaN), Last(40000)>> }

=============================================================================
