-------------------------- MODULE MCFilterCommand --------------------------
(***************************************************************************)
(* A printer description with three paper sizes, one of them without an    *)
(* area, and the jobs that tell the outcomes apart: with and without a     *)
(* UUID, turned and not, borderless, with a choice missing, and with one   *)
(* the filter does not know.                                               *)
(***************************************************************************)
EXTENDS FilterCommand, TLC

\* Rows out of order, one of each kind that is left out, a size twice, and a
\* row behind the last line end.
MCPpd ==
  <<<<"*%CNSizeToPrintArea", "A4.bl", "5092", "7181">>,
    <<"*%CNPpdToOptKey", "PageSize", "--papersize">>, <<>>,
    <<"*%CNPpdToOptKey", "MediaType", "--media">>,
    <<"*%CNPpdToOptKey", "MediaType">>,
    <<"*OpenUI", "*PageSize/Media", "Size:", "PickOne">>,
    <<"*%CNSizeToPrintArea", "A4", "0", "6826">>,
    <<"*%CNSizeToPrintArea", "A4", "4800", "6826">>,
    <<"*%CNPpdToOptKey", "Duplex", "--duplex">>,
    <<"*%CNSizeToPrintArea", "A4", "4800", "6550">>,
    <<"*%CNPpdToOptKey", "CNGrayscale", "--grayscale">>,
    <<"*%CNSizeToPrintArea", "B5", "4138", "5605">>>>

MCMapTbl == "A4" :> "SIZE_A4" @@ "A4.bl" :> "SIZE_A4" @@ "B5" :> "SIZE_B5" @@
            "plain" :> "MEDIA_PLAIN" @@ "matte" :> "MEDIA_MATTE" @@
            "True" :> "MONO" @@ "False" :> "COLOR" @@ "None" :> "DUPLEX_OFF" @@
            "DuplexTumble" :> "DUPLEX_ON" @@ "DuplexNoTumble" :> "DUPLEX_ON"

MCBeginnings ==
  {<<"--filterpath", "filterpath">>, <<"--papersize", "papersize">>,
   <<"--media", "mediatype">>, <<"--grayscale", "grayscale">>,
   <<"--duplex", "duplexprint">>, <<"--jobid", "jobid">>, <<"--uuid", "uuid">>,
   <<"--printable_width", "printable_width">>,
   <<"--printable_height", "printable_height">>}

Choices(p, m, d, g) ==
  "PageSize" :> p @@ "MediaType" :> m @@ "Duplex" :> d @@ "CNGrayscale" :> g

Job(c, u) == [choices |-> c, jobID |-> "7", uuid |-> u]

MCJobs ==
  {Job(Choices("A4", "plain", "None", "False"), "u"),
   Job(Choices("A4.bl", "matte", "DuplexNoTumble", "True"), NoValue),
   Job(Choices("A4.bl", "plain", "DuplexTumble", "False"), "u"),
   Job(Choices("B5", "plain", "None", "False"), NoValue),
   Job(Choices("A4", "unknown", "None", "False"), "u"),
   Job("PageSize" :> "A4" @@ "MediaType" :> "plain", "u"),
   Job("MediaType" :> "plain" @@ "Duplex" :> "None", NoValue)}

=============================================================================
