-------------------------------- MODULE MCCli --------------------------------
(***************************************************************************)
(* Command lines for the tool: for every command a run in which all is     *)
(* well, and every run that departs from it in at most two things.         *)
(***************************************************************************)
EXTENDS Cli, TLC

GoodItem ==
  [line |-> "entry", arm |-> "address_v2", inspects |-> TRUE, authorize |-> "ok", verify |-> "ok",
   expiration |-> 9, verdicts |-> <<"verified">>, diff |-> "clean", wrap |-> "ok"]

SourceItem ==
  [GoodItem EXCEPT !.arm = "source_account", !.expiration = 0,
                   !.verdicts = <<>>, !.wrap = "ErrUnsupportedCredentials"]

OtherItems ==
  {[GoodItem EXCEPT !.arm = "address_with_delegates", !.verdicts = v] :
     v \in {<<"unsigned", "verified">>, <<"verified", "unsigned">>, <<"unsigned", "unsigned">>}}
  \cup
  {SourceItem,
   [GoodItem EXCEPT !.arm = "unknown", !.inspects = FALSE, !.verify = "ErrUnsupportedCredentials",
                    !.authorize = "ErrUnsupportedCredentials", !.wrap = "ErrUnsupportedCredentials",
                    !.diff = "refused", !.verdicts = <<>>],
   [GoodItem EXCEPT !.expiration = 10]}
  \cup {[GoodItem EXCEPT !.line = l] : l \in {"envelope", "garbage", "unread"}}
  \cup {[GoodItem EXCEPT !.authorize = e] : e \in {"ErrAlreadySigned", "ErrTooManySignatures", "other"}}
  \cup {[GoodItem EXCEPT !.verdicts = v] :
          v \in {<<"unsigned">>, <<"invalid">>, <<"cannot_check">>, <<"verified", "invalid">>}}
  \cup {[GoodItem EXCEPT !.diff = d] : d \in {"stale", "refused"}}
  \cup {[GoodItem EXCEPT !.wrap = e] : e \in {"ErrDuplicateDelegate", "ErrInvalidExpiration", "other"}}

Setting(flag, env, file) == [flag |-> flag, env |-> env, file |-> file]

GoodRun(command) ==
  [command |-> command, level |-> "none", parses |-> TRUE, config |-> "absent", jsonFlag |-> "unset",
   format |-> Setting("unset", "", ""), network |-> Setting("testnet", "", ""),
   rpc |-> Setting("unset", "url", ""),
   secret |-> Setting(IF command \in {"sign", "submit"} THEN "NAME" ELSE "unset", "", ""),
   fetched |-> TRUE, validUntil |-> IF command = "verify" THEN 0 ELSE 9, validFor |-> 0, latest |-> {7},
   assertion |-> FALSE, signerCmd |-> "", timeoutPositive |-> TRUE, seed |-> "secret", for |-> FALSE,
   given |-> "entry", source |-> "value",
   shape |-> IF command \in {"simulate", "submit"} THEN "envelope" ELSE "entry",
   items |-> <<GoodItem>>, allowUnsigned |-> FALSE, uneven |-> FALSE, tree |-> "flags", text |-> FALSE,
   simulated |-> "ok", invocations |-> 1, feeBump |-> FALSE, submitted |-> "SUCCESS",
   toolchain |-> TRUE, reachable |-> TRUE, possesses |-> TRUE]

\* What may be different about a run, each a set of changes made together.
Departures ==
  UNION {{f :> v : v \in vs} : <<f, vs>> \in
    {<<"level", {"quiet", "verbose", "both"}>>, <<"config", {"loaded", "refused"}>>,
     <<"jsonFlag", {"true", "false"}>>, <<"source", {"", "broken_stdin", "no_file", "both_stdin"}>>,
     <<"given", {"entries", "both", "neither", "one_side"}>>, <<"shape", {"entry", "envelope", "no_invoke", "garbage"}>>,
     <<"seed", {"unset", "garbage", "public"}>>, <<"simulated", {"ErrNoInvokeOperation", "other"}>>,
     <<"submitted", {"FAILED", "refused", "lost"}>>, <<"tree", {"bad_json", "none"}>>}}
  \cup {"parses" :> TRUE, "parses" :> FALSE, "fetched" :> FALSE, "latest" :> {}, "assertion" :> TRUE, "timeoutPositive" :> FALSE,
        "for" :> TRUE, "allowUnsigned" :> TRUE, "uneven" :> TRUE, "text" :> TRUE, "feeBump" :> TRUE,
        "toolchain" :> FALSE, "reachable" :> FALSE, "possesses" :> FALSE, "command" :> "unknown"}
  \cup {"invocations" :> n : n \in {0, 2}} \cup {"validUntil" :> n : n \in {0, 9, MaxLedger + 1, MaxLedger + 10}}
  \cup {"validUntil" :> 0 @@ "validFor" :> n : n \in {2, MaxLedger, MaxLedger + 1}} \cup {"validFor" :> 2}
  \cup {"signerCmd" :> c @@ "secret" :> Setting("unset", "", "") : c \in {"ok", "blank", "secret_shaped"}}
  \cup {"signerCmd" :> "ok"}
  \cup {"secret" :> s : s \in {Setting("unset", "", ""), Setting("unset", "NAME", "")}}
  \cup {"format" :> s : s \in {Setting("json", "", ""), Setting("unset", "json", ""), Setting("unset", "bad", ""),
                               Setting("dot", "json", "")}}
  \cup {"format" :> Setting("unset", "", "json") @@ "config" :> "loaded"}
  \cup {"network" :> s : s \in {Setting("unset", "", ""), Setting("unset", "rpc", ""), Setting("rpc", "", "")}}
  \cup {"rpc" :> Setting("unset", "", "")}
  \cup {"given" :> "entries" @@ "items" :> s : s \in {<<>>, <<GoodItem, GoodItem>>}}
  \cup {"given" :> "entries" @@ "items" :> s : s \in UNION {{<<x>>, <<x, GoodItem>>, <<GoodItem, x>>} : x \in OtherItems}}
  \cup {"shape" :> "envelope" @@ "items" :> s :
          s \in {<<>>} \cup UNION {{<<x>>, <<GoodItem, x>>} : x \in {y \in OtherItems : y.line = "entry"}}}
  \cup {"items" :> <<x>> : x \in {y \in OtherItems : y.line = "entry"}}

\* The fields a command never looks at stay as they are.
Ignored(command) ==
  LET ofSign == {"assertion", "signerCmd", "timeoutPositive", "for"}
      ofNetwork == {"network", "rpc", "fetched"}
      ofLedger == {"validUntil", "validFor", "latest"}
      ofKey == {"secret", "seed"}
      ofDoctor == {"toolchain", "reachable", "possesses"}
      ofSubmit == {"submitted", "invocations", "feeBump"}
      all == ofSign \cup ofNetwork \cup ofLedger \cup ofKey \cup ofDoctor \cup ofSubmit
               \cup {"tree", "text", "uneven", "simulated", "allowUnsigned"}
      read == CASE command = "sign" -> ofSign \cup ofNetwork \cup ofLedger \cup ofKey
                [] command = "verify" -> ofNetwork \cup {"validUntil", "allowUnsigned"}
                [] command = "diff" -> {"uneven"}
                [] command = "payload" -> ofNetwork \cup ofLedger
                [] command = "delegates" -> ofLedger \cup {"rpc", "tree"}
                [] command = "inspect" -> {"text"}
                [] command = "simulate" -> {"rpc", "simulated"}
                [] command = "submit" -> ofNetwork \cup ofKey \cup ofSubmit \cup {"allowUnsigned"}
                [] command = "doctor" -> ofKey \cup ofDoctor
                [] OTHER -> {}
  IN  all \ read

IgnoredBy == [c \in Commands |-> Ignored(c)]
Ignores(c, departure) == \E f \in DOMAIN departure : f \in IgnoredBy[c]

\* Two departures, which may be one and the same or none.
MCCommandLines ==
  {in \in {d[2] @@ d[3] @@ GoodRun(d[1]) :
             d \in {x \in Commands \X Departures \X Departures : ~Ignores(x[1], x[2]) /\ ~Ignores(x[1], x[3])}} :
     Possible(in)}

-----------------------------------------------------------------------------
\* A run with nothing wrong in it, whatever entries in order it is given, ends in
\* zero: no command refuses what it should take (the commands' run functions).
CleanRunSucceeds ==
  \A out \in ended : LET in == commandLine
    IN  in.command \in Commands /\ in = [GoodRun(in.command) EXCEPT !.items = in.items]
          /\ (\A i \in DOMAIN in.items : InOrder(in, in.items[i])) => out.exit = ExitOK
==============================================================================
