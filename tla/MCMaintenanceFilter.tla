------------------------ MODULE MCMaintenanceFilter ------------------------
(***************************************************************************)
(* MaintenanceFilter for TLC.  A character is a word or the end of a line; *)
(* one name begins with another, and a command has no data.                *)
(***************************************************************************)
EXTENDS MaintenanceFilter

MCReturns == {"\n"}

MCHeader == <<"#CUPS", "-COMMAND">>

MCFiles ==
  LET header == MCHeader \o <<"\n">> IN
  { <<>>, header, <<"clean", "\n">>, <<"\n", "clean", "\n">>,
    header \o <<"\n", "clean", "\n">>,
    header \o <<"clean", "\n">>,
    header \o <<"clean", "all", "\n", "test", "\n">>,
    header \o <<"test">>,
    header \o <<"clean", "all", "all", "all">>,
    MCHeader \o MCHeader \o <<"\n", "clean", "\n">>,
    <<"#CUPS", "clean", "\n", "clean", "\n">> }

MCEntries ==
  LET clean == [name |-> <<"clean">>, size |-> 2]
      all   == [name |-> <<"clean", "all">>, size |-> 1]
      test  == [name |-> <<"test">>, size |-> 0]
  IN { <<>>, <<clean, all, test>>, <<all, clean>> }

=============================================================================
