----------------------------- MODULE MCStorage -----------------------------
(* Instances of Storage: a floppy of two heads with two sectors of two      *)
(* bytes, 16-bit registers of two digits in base 2, two pages of memory;    *)
(* a disk of four sectors of two words.                                     *)
EXTENDS Storage

MC_Spans ==
  {[c |-> 0, h |-> 0, r |-> 1, eot |-> 1],      \* a sector
   [c |-> 0, h |-> 0, r |-> 1, eot |-> 2],      \* a track, or with MT two
   [c |-> 0, h |-> 1, r |-> 2, eot |-> 1],      \* EOT before R
   [c |-> 0, h |-> 0, r |-> 2, eot |-> 3],      \* past the track's end
   [c |-> 1, h |-> 0, r |-> 1, eot |-> 1]}      \* past the last cylinder

MC_FdGuests ==
  {{}, {"read", "scan"}, {"format", "write"}, {"read", "modes"}, {"write", "modes"},
   {"write", "media"}, {"seek", "media", "reset"}, {"config", "reset"},
   {"config", "scan"}, {"int13", "write"}, {"ports", "read"}, {"read", "pio"},
   {"write", "pio"}}

MC_FdRewrite == {{"write", "rewrite"}}

MC_HdGuests ==
  {{}, {"read", "write", "abandon"}, {"multiple", "abandon"}, {"multiple", "reset"},
   {"ext", "abandon", "other"}, {"buffer", "write", "abandon", "reset"},
   {"select", "write"}, {"cd", "media", "reset"}, {"cd", "abandon", "read", "other"},
   {"cd", "select"}, {"absent", "read"}}

MC_NoGuest == {{}}
=============================================================================
