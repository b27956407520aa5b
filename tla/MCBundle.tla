------------------------------ MODULE MCBundle ------------------------------
(* Instances of Bundle for TLC.                                            *)
EXTENDS Bundle, TLC

TwoNames == {"a", "b"}
TwoValues == {"x", "y"}
NewValue == {"y"}
OneSecret == {"s"}
HereKey == "here"
TwoKeys == {"here", "there"}

Row(v) == [name |-> "a", value |-> v]
Working == [name |-> "a", on |-> TRUE, needs |-> FALSE, config |-> [key |-> HereKey, secret |-> "s"]]

\* A small set-up in use: a host with a schedule, a channel and a rule.
InUse ==
    [hosts |-> {[id |-> 1, name |-> "a", value |-> "x"]}, schedules |-> {Row("x")}, channels |-> {Working},
     rules |-> {[id |-> 1, name |-> "a", value |-> "x", host |-> 1]}, hs |-> {<<1, "a">>}, hc |-> {<<1, "a">>}]

InUseOnly == {InUse}

\* Documents of an instance with another key, one by one in the three modes, and
\* one whose link leads nowhere.
Elsewhere(mode, key) ==
    [mode |-> mode, key |-> IF mode = "instance_key" THEN key ELSE "", valid |-> TRUE,
     hosts |-> {Row("y"), [name |-> "b", value |-> "y"]}, schedules |-> {Row("y")},
     channels |-> {[name |-> "b", on |-> TRUE, cipher |-> [key |-> IF mode = "none" THEN "" ELSE key,
                                                           secret |-> IF mode = "none" THEN "" ELSE "s"]]},
     rules |-> <<[name |-> "a", value |-> "y", host |-> NoHost], [name |-> "b", value |-> "y", host |-> "b"]>>,
     hs |-> {<<"b", "a">>}, hc |-> {<<"b", "b">>}]

ForeignDocuments ==
    {Elsewhere("none", "there"), Elsewhere("instance_key", "there"), Elsewhere("passphrase", "passphrase"),
     [Elsewhere("none", "there") EXCEPT !.hs = {<<"b", "b">>}]}
NoDocuments == {}
=============================================================================
