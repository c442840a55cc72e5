---------------------------- MODULE MCVolumeLayout ----------------------------
EXTENDS VolumeLayout

\* Around the smallest volume, the changes of cluster size and FAT type, and
\* the change of total_sectors_16 to total_sectors_32.
Boundaries == (38 .. 60) \cup (4080 .. 4130) \cup (8185 .. 8240) \cup {20479, 20480}
              \cup {32768, 32769} \cup (65520 .. 65610) \cup (66040 .. 66060)
              \cup (66550 .. 66570) \cup (131070 .. 131090) \cup {262144, 262145, 532481}
              \cup {1048576, 20971520, 2^25}

Asked == {0, -1, 30}
\* Placed by the program in sectors reserved for it, or left to the mount;
\* the audit log on or off.
Placed == {[log |-> <<8, 4>>, audit |-> <<12, 17>>, audited |-> TRUE],
           [log |-> <<0, 4>>, audit |-> <<0, 8>>, audited |-> FALSE]}
Automatic == {[log |-> <<0, 4>>, audit |-> <<0, 9>>, audited |-> FALSE]}
===============================================================================
