---------------------------- MODULE MCCommandHost ----------------------------
(* A small instance of CommandHost: two plugins and what may be installed. *)
EXTENDS CommandHost, TLC

E(id, kind, descriptor, keys) ==
  [extension_id |-> id, kind |-> kind, descriptor |-> descriptor,
   identified |-> TRUE, members |-> [key \in keys |-> "callable"]]

Encoder == E("zip@1", "stage", "d1", {"stage_encoder"})
Decoder == E("zip@1", "stage", "d1", {"stage_decoder"})
Carrier == E("disk@1", "carrier", "d2", {"carrier_reader"})

Nothing == [resources |-> <<>>, profiles |-> <<>>]
States ==
  [resources |-> <<[id |-> "states", owner |-> "zip@1"]>>,
   profiles |-> <<[id |-> "q", owner |-> "zip@1", overrides |-> "states" :> "low"]>>]
OnlyProfile == [States EXCEPT !.resources = <<>>]

Entries(name, groups, dist) ==
  {[group |-> g, name |-> name, dist |-> dist] : g \in groups}
Code(extensions, commands, resources) ==
  [extensions |-> extensions, commands |-> commands, resources |-> resources]

First == Entries(1, {"extensions", "resources", "conformance"}, "one")
Second == Entries(2, {"extensions", "commands"}, "two")
Environment(entries, code1, code2) ==
  [entries |-> entries, code |-> <<code1, code2>>]

FirstCode == Code(<<Encoder>>, <<>>, States)
SecondCode == Code(<<Decoder, Carrier>>, <<"pack">>, Nothing)

MCEnvironments ==
  { \* both plugins, which complement each other
    Environment(First \cup Second, FirstCode, SecondCode),
    \* both provide the encoder
    Environment(First \cup Second, FirstCode, [SecondCode EXCEPT !.extensions = <<Encoder>>]),
    \* the second describes the extension differently and takes a host command
    Environment(First \cup Second, FirstCode,
      Code(<<E("zip@1", "stage", "d2", {"stage_decoder"})>>, <<"inspect">>, Nothing)),
    \* the first was removed
    Environment(Second, FirstCode, SecondCode),
    \* the first no longer contributes the resource its profile sets
    Environment(First \cup Second, [FirstCode EXCEPT !.resources = OnlyProfile],
                SecondCode),
    \* loading fails
    Environment(First \cup Second, Code(Raises, <<>>, States),
                [SecondCode EXCEPT !.commands = Raises]),
    \* the first publishes conformance cases only, the second what it does not own
    Environment(Entries(1, {"conformance"}, "one")
                  \cup Entries(2, {"extensions", "resources"}, "two"),
                FirstCode, Code(<<Carrier>>, <<>>, States)),
    \* two distributions publish the first
    Environment(First \cup Entries(1, {"commands"}, "other"), FirstCode, SecondCode) }

Type(command, name, profile, plugin) ==
  [command |-> command, name |-> name, profile |-> profile, plugin |-> plugin]

MCInvocations ==
  {Type(c, n, "default", <<>>) : c \in {"enable", "disable"}, n \in Names}
  \cup {Type("test", 1, "default", <<2>>)}
  \cup {Type(c, 0, "p", <<>>) : c \in {"create", "delete"}}
  \cup {Type("create", 0, "default", <<>>)}
  \cup {Type("set", 0, "p", <<1>>)}
  \cup {Type("use", 0, id, <<>>) : id \in Ids \cup {"default"}}
  \cup {Type("inspect", 0, "default", plugin) : plugin \in {<<>>, <<2, 1>>}}
  \cup {Type("pack", 0, "default", <<>>)}

MCCatalogs ==
  {[resources |-> {"chunks"}, profiles |-> NoProfiles],
   [resources |-> {"chunks", "states"}, profiles |-> "q" :> ("states" :> "low")]}
=============================================================================
