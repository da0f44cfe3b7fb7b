----------------------------- MODULE MCItemDone -----------------------------
\* Every kind of item the routes of Transferrer build, and one call of get_file.
EXTENDS ItemDone

Plain == [route |-> "get_file", move |-> FALSE, runs |-> "serial", handle |-> FALSE,
          fsync |-> FALSE, tags |-> FALSE, annotations |-> FALSE]
MCItems ==
  {i \in ItemType : /\ i.route # "get_file"
                    /\ i.route = "copy" => ~i.handle /\ i.runs # "crt"
                    /\ i.tags \/ i.annotations => i.route = "copy"
                    /\ i.fsync => i.route = "download" /\ i.move /\ ~i.handle}
    \cup {Plain}
=============================================================================
