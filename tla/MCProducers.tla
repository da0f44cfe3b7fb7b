----------------------------- MODULE MCProducers -----------------------------
(* Producers for TLC: keys 1 to 3 are A, B and a, or three spellings of one name. *)
EXTENDS Producers

Base == [route |-> "download", form |-> "tree", sync |-> FALSE, move |-> FALSE,
         mode |-> "skip", insensitive |-> TRUE, no_overwrite |-> FALSE, glacier |-> "warn",
         dryrun |-> FALSE, delete |-> FALSE, capable |-> TRUE, order |-> <<1, 2, 3>>,
         kind |-> <<"plain", "plain", "plain">>, fold |-> <<1, 2, 1>>, dest |-> {},
         spelled |-> <<1, 2, 3>>]

Modes == {"ignore", "skip", "warn", "error"}
Kinds3 == {<<"plain", "plain", "plain">>, <<"glacier", "plain", "plain">>,
           <<"plain", "parent", "plain">>, <<"absent", "plain", "plain">>,
           <<"plain", "plain", "absent">>, <<"hidden", "plain", "plain">>}

\* cp and mv of a tree, in key order and not.
Trees == {[Base EXCEPT !.mode = m, !.insensitive = i, !.move = v, !.order = o, !.kind = kk,
                       !.dest = d] :
            m \in Modes, i \in BOOLEAN, v \in BOOLEAN, o \in {<<1, 2, 3>>, <<3, 2, 1>>},
            kk \in Kinds3, d \in {{}, {1}, {3}}}
\* Three spellings of one name; files that are already there and must not be overwritten.
Spellings == {[Base EXCEPT !.mode = m, !.fold = <<1, 1, 1>>, !.move = v] : m \in Modes, v \in BOOLEAN}
Keeps == {[Base EXCEPT !.no_overwrite = TRUE, !.glacier = g, !.kind = kk, !.dest = d] :
            g \in {"ignore", "force"}, kk \in Kinds3, d \in {{}, {1}, {3}}}
\* sync with its delete lane.
Syncs == {[Base EXCEPT !.sync = TRUE, !.mode = m, !.insensitive = i, !.delete = TRUE,
                       !.order = o, !.kind = kk, !.dest = d, !.dryrun = y] :
            m \in Modes, i \in BOOLEAN, o \in {<<1, 2, 3>>, <<3, 1, 2>>}, kk \in Kinds3,
            d \in {{}, {1}, {3}}, y \in BOOLEAN}
\* sync into directories that are there in another case: 1 is listed as 3, or as 2 of
\* three spellings.
Finds == {[Base EXCEPT !.sync = TRUE, !.mode = m, !.delete = TRUE, !.order = o, !.dest = d,
                       !.spelled = s[1], !.fold = s[2], !.kind = kk, !.no_overwrite = n] :
            m \in Modes, o \in {<<1, 2, 3>>, <<1, 3, 2>>, <<3, 1, 2>>}, d \in {{}, {2}, {3}},
            s \in {<<<<3, 2, 3>>, <<1, 2, 1>>>>, <<<<2, 2, 2>>, <<1, 1, 1>>>>},
            kk \in {<<"plain", "plain", "plain">>, <<"plain", "plain", "absent">>,
                   <<"plain", "absent", "plain">>}, n \in BOOLEAN}
\* The other routes, with a tree, one object and a bare bucket as their source.
Others == {[Base EXCEPT !.route = r, !.insensitive = FALSE, !.form = f, !.kind = kk,
                        !.order = IF f = "tree" THEN <<1, 2, 3>> ELSE <<1>>,
                        !.move = v, !.capable = c] :
             r \in Routes, f \in {"tree", "object", "bucket"}, v \in BOOLEAN, c \in BOOLEAN,
             kk \in {<<a, b, "absent">> : a \in Kinds \ {"parent"}, b \in {"absent", "oversize"}}}

MCPlans ==
  Trees \cup Spellings \cup Keeps \cup Syncs \cup Finds
    \cup {p \in Others : p.form # "tree" => p.kind[2] = "absent"}
=============================================================================
