----------------------------- MODULE MCMaconImage -----------------------------
(* TLC instance of MaconImage: the library's own tables, a few calls. *)
EXTENDS MaconImage, MaconTables

\* Numbers beyond, at and inside the range of each way of storing, and values
\* that a step cuts.
MCNumberCalls ==
  {<<"CoolingSetpoint", -129>>, <<"CoolingSetpoint", -1>>, <<"PrimaryEev", 55>>,
   <<"PrimaryEev", 1280>>, <<"RealtimePower", 25500>>,
   <<"RealtimePower", -50>>}

MCFlagCalls == {<<"UnitOn", 1>>, <<"UnitOn", 0>>, <<"Cooling", 2>>, <<"Defrost", 1>>}
MCModeCalls == {"Cooling", "HotWaterCooling", "Unknown"}

\* A fault with one bit, with two in one register, and with two in two.
MCFaultIds   == {"TempDifferenceTooLarge", "EepromError", "CoilSensor"}
MCFaultCodes == {"E28", "RUN"}
MCFaultSites == {2007 * 8 + 5, 2007 * 8 + 1, 2128 * 8 + 5, 2128 * 8 + 6}

\* Windows whose status bytes are set, and one with a byte for every fault
\* bit; the tail of one window that reaches beyond the image.
Filled(n, at) == [i \in 1 .. n |-> IF i \in DOMAIN at THEN at[i] ELSE 0]
MCIngests ==
  {<<2000, Filled(58, (8 :> 32) @@ (50 :> 4))>>,
   <<2093, Filled(50, (1 :> 200) @@ (4 :> 6) @@ (33 :> 161) @@ (34 :> 66) @@ (36 :> 4))>>,
   <<2093, Filled(50, (34 :> 8) @@ (37 :> 6) @@ (49 :> 60))>>,
   <<2141, <<45, 300, 7>> >>}

\* Commands across the seam of the windows, behind the last one, and too long.
MCWrites == {<<0, <<25>> >>, <<49, <<1, 2, 3>> >>, <<107, <<9>> >>, <<107, <<9, 9>> >>,
             <<32, <<33, 4>> >>, <<20, Filled(65, <<>>)>>}
MCPokes  == {<<2007, 33>>, <<2007, 256>>, <<2143, 1>>, <<2049, 7>>}
=============================================================================
