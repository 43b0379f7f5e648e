---------------------------- MODULE MCLogSearch ----------------------------
(* Instances of AppendExport, AppendStore and LogSearch for TLC. *)
EXTENDS LogSearch, TLC

CONSTANTS api, db

Log(fits, time, observed, severity, service, trace, body) ==
    [fits |-> fits, time |-> time, observed |-> observed, severity |-> severity,
     severity_text |-> <<"I">>, service |-> service, trace_id |-> trace,
     body |-> body, attributes |-> <<"{", "}">>]

\* Three records that fit, with a wildcard, a backslash and neither in their
\* bodies, the second without a time of its own and with an id that is too
\* long; one that does not fit.
Percent == Log(TRUE, 3, 1, 9, api, <<175>>, <<"A", "%", "b">>)
Slash == Log(TRUE, 0, 2, 17, api, <<1, 1>>, <<"a", "\\", "B">>)
Plain == Log(TRUE, 2, 1, 9, db, <<175>>, <<"a", "b">>)
TooLarge == Log(FALSE, 1, 1, 9, api, <<>>, <<>>)
MCRecords == {Percent, Slash, Plain, TooLarge}

\* Two chunks, the last one short; nothing to store; a record that cannot be.
MCRequests == {<<Percent, Slash, Plain>>, <<>>, <<Percent, TooLarge>>}

Ask(service, severity, trace, from, to, search, depth) ==
    [service_name |-> service, min_severity |-> severity, trace_id |-> trace,
     time_min |-> from, time_max |-> to, search |-> search, search_depth |-> depth]

\* Each filter by itself or with another, depths of one, two and none.
MCQueries == {Ask(AnyService, 0, <<>>, NoTime, NoTime, <<"%", "B">>, 0),
              Ask(api, 10, <<>>, NoTime, NoTime, <<"\\">>, 2),
              Ask(AnyService, 0, <<"A", "f">>, 2, 3, <<>>, 1),
              Ask(AnyService, 0, <<"+", "f">>, NoTime, NoTime, <<>>, 0),
              Ask(AnyService, 0, <<"0", "1", "0", "1">>, NoTime, NoTime, <<>>, 0),
              Ask(AnyService, 0, <<"a">>, NoTime, NoTime, <<>>, 0)}

Characters == {"a", "A", "%", "_", "\\"}
MCNeedles == BoundedSeq(Characters, 2)
MCTexts == BoundedSeq(Characters, 3)

ExporterSymmetry == Permutations(Exporters)
=============================================================================
