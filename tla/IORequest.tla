----------------------------- MODULE IORequest -----------------------------
(***************************************************************************)
(* What a direct I/O request promises its caller, whatever way the code    *)
(* cuts it into bios: only sectors that were asked for are put under I/O   *)
(* or filled, and the request is answered once, with nothing under way any *)
(* more and with no more sectors reported than were attempted.             *)
(***************************************************************************)
EXTENDS Integers

CONSTANT SectorBytes   \* bytes of a sector

VARIABLES
  first, last,         \* the sectors of the file that were asked for: first .. last
  attempted,           \* sectors that were put under I/O or filled with zeros
  busy,                \* transfers under way: the caller's pages are in use
  outcome              \* what the caller was told: <<>>, or <<bytes or -errno>>

vars == <<first, last, attempted, busy, outcome>>

Init == attempted = {} /\ busy = {} /\ outcome = <<>>

\* Put the sectors S under I/O; a transfer that pads a block carries none.
Begin ==
  /\ outcome = <<>>
  /\ \E S \in SUBSET ((first .. last) \ attempted) : attempted' = attempted \cup S
  /\ busy \subseteq busy'
  /\ UNCHANGED <<first, last, outcome>>

\* n bytes may be reported once the sectors they stand for have been attempted.
Reportable(n) == n >= 0 => first .. first + (n \div SectorBytes) - 1 \subseteq attempted

\* The end of a transfer, of the request, or of both at once.
Finish ==
  /\ outcome = <<>>
  /\ busy' \subseteq busy
  /\ \/ outcome' = outcome
     \/ busy' = {} /\ \E n \in {outcome'[1]} : outcome' = <<n>> /\ Reportable(n)
  /\ UNCHANGED <<first, last, attempted>>

Next == Begin \/ Finish

Spec == Init /\ [][Next]_vars

=============================================================================
