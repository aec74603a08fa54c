----------------------------- MODULE MCPrograms -----------------------------
(***************************************************************************)
(* Values of the constants of BoardPrograms for TLC.                       *)
(***************************************************************************)
EXTENDS BoardPrograms

(* One standard id; two extended ids whose low bits agree; an id that is   *)
(* not valid without -E; a side that compares more than is sent.           *)
Id(l, h) == [low |-> l, high |-> h]
CanOptions(ids, ext, sent, compared) ==
    [canids |-> ids, extended |-> ext, bytes |-> [tx |-> sent, rx |-> compared],
     same_pattern |-> FALSE]
MCCommandLines ==
    {CanOptions(<<Id(1, 0)>>, FALSE, 8, 8), CanOptions(<<Id(1, 0), Id(1, 1)>>, TRUE, 8, 8),
     CanOptions(<<Id(1, 1)>>, FALSE, 8, 8), CanOptions(<<Id(1, 0)>>, FALSE, 4, 8)}

(* -s with and without -d, over the end of the minute and of the hour.     *)
Request(b, d, e, m, s) ==
    [set |-> b, alarm |-> d, irq |-> e, minutes_res |-> m, seconds |-> s]
MCRequests ==
    {Request(b, FALSE, TRUE, FALSE, s) : b \in BOOLEAN, s \in {-1, 1, 2}}
    \cup {Request(FALSE, FALSE, TRUE, TRUE, s) : s \in {1, 5, 10}}
    \cup {Request(TRUE, TRUE, FALSE, FALSE, 2)}
=============================================================================
