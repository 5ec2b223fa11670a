---------------------------- MODULE MCScsiTrace ----------------------------
(* Trace files for ScsiTrace: chunked transfers, cache switches, registers *)
(* and the lines that end the program.                                     *)
EXTENDS ScsiTrace

L(op, args) == [op |-> op, arg |-> args]

MCTraces ==
    {<<L("T", <<2>>), L("R", <<0, 8>>), L("T", <<3>>), L("-", <<0, 3, 2>>)>>,
     <<L("W", <<2, 7>>), L("R", <<2, 3>>), L("I", <<2>>), L("S", <<5>>), L("W", <<0, 0>>)>>,
     <<L("B", <<5>>), L("R", <<1, 4>>), L("B", <<2>>)>>,
     <<L("B", <<7>>), L("W", <<4, 4>>), L("S", <<1>>)>>,
     <<L("T", <<0>>), L("+", <<2, 1, 1>>), L("/", <<0, 2, 2>>), L("C", <<>>), L("P", <<2>>)>>,
     <<L("S", <<3>>), L("/", <<2, 1, 0>>), L("R", <<0, 1>>)>>,
     <<L("R", <<0, 3>>), L("T", <<MAX>>)>>,
     <<L("P", <<-1>>)>>}

MCPages ==
    {[RCD |-> r, WCE |-> w, DISC |-> a, ABPF |-> a, DRA |-> a,
      rest |-> RestOfPage] : r, w, a \in BOOLEAN}
=============================================================================
