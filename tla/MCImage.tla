------------------------------- MODULE MCImage -------------------------------
(* What lies on a volume, one part in each behaviour: its regions from     *)
(* format to mount (VolumeLayout), the bytes of its FAT (FatEntries), the  *)
(* trail of the audit log (AuditLog), the slots of a directory with long   *)
(* and short names (EntryNames).                                           *)
EXTENDS VolumeLayout, FatEntries, AuditLog, EntryNames, TLC

VARIABLE part
allVars == <<part, vars, tableVars, auditVars, nameVars>>

\* Sizes around the limits of the FAT types, of the audit log's sizes and of
\* the cluster sizes, in sectors.
Boundaries == (38 .. 60) \cup (4080 .. 4130) \cup (8185 .. 8240) \cup {20479, 20480}
              \cup {32768, 32769} \cup (65520 .. 65610) \cup (66040 .. 66060)
              \cup (66550 .. 66570) \cup (131070 .. 131090) \cup {262144, 262145, 532481}
              \cup {1048576, 20971520, 2^25}

\* The default, with_transaction_log, and an explicit number.
Asked == {0, -1, 30}
\* Logs given their sectors, and the automatic places.
Placements == {[log |-> <<8, 4>>, audit |-> <<12, 17>>, audited |-> TRUE],
               [log |-> <<0, 4>>, audit |-> <<0, 8>>, audited |-> FALSE]}

\* On or off, the levels and the one at which nothing is logged.
Levels == [enabled : BOOLEAN, level : 0 .. 3]

\* Names that are too long, that must be changed, one that fits and looks like
\* a numbered form, one that ends in U+FFFF.
Created == {<<"a", "b", "c", "a", "b">>, <<"a", "b", "FFFF">>,
            <<"a", "b", "~", "1">>, <<"a", " ", "b", ".", "c">>, <<"FFFF", "a">>}
FromOutside == {[base |-> <<"a", "b", "~", "1">>, ext |-> <<" ">>],
                [base |-> <<"b", "b", " ", " ">>, ext |-> <<" ">>]}
Length(name) == Cardinality(DOMAIN name)
\* Some short names have the same checksum and some have not.
CountOfB(s) == Cardinality({i \in DOMAIN s.base : s.base[i] = "b"})
Digit(n) == <<ToString(n)>>

ASSUME PartsAssumption == EntriesAssumption /\ AuditAssumption /\ NamesAssumption

\* The parts that do not move stay in an initial state.
One == [total |-> 40, bps |-> 512, bpc |-> 0, fatType |-> NoType, rootEntries |-> 16,
        fats |-> 1, reserved |-> 0]
PartInit ==
  /\ part \in {"layout", "table", "audit", "names"}
  /\ (part = "layout" \/ request = One) /\ Init
  /\ (part = "table" \/ bits = 12) /\ TableInit
  /\ (part = "audit" \/ config = [enabled |-> FALSE, level |-> 0]) /\ AuditInit
  /\ NamesInit

PartNext ==
  /\ \/ part = "layout" /\ Next /\ UNCHANGED <<tableVars, auditVars, nameVars>>
     \/ part = "table" /\ TableNext /\ UNCHANGED <<vars, auditVars, nameVars>>
     \/ part = "audit" /\ AuditNext /\ UNCHANGED <<vars, tableVars, nameVars>>
     \/ part = "names" /\ NamesNext /\ UNCHANGED <<vars, tableVars, auditVars>>
  /\ UNCHANGED part

PartSpec == PartInit /\ [][PartNext]_allVars
==============================================================================
