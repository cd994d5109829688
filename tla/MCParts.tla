------------------------------ MODULE MCParts ------------------------------
(***************************************************************************)
(* The components that share no state with another modelled one, each on   *)
(* its own: live names the one that moves, the others rest in one initial  *)
(* state.  The state space is the sum of theirs.                           *)
(***************************************************************************)
EXTENDS ConfigFile, RuleEngine, TermFile, SystemProxy, Workbench, TextFlow, Callers,
        TagsProbe, Certificates, Launch, SetupWizard

VARIABLE live

Parts == {"config", "rules", "terms", "proxy", "bench", "text", "firewall",
          "tiers", "tags", "library", "ca", "launch", "setup", "relay"}

PartsInit ==
  /\ live \in Parts
  /\ EngineInit /\ TermInit /\ WorkInit /\ FwInit /\ Init
  /\ CfgInit /\ (live # "config" => disk = Absent)
  /\ SysInit /\ (live # "proxy" => registry = [url |-> None, enabled |-> FALSE, blanket |-> FALSE])
  /\ TextInit /\ (live # "text" => text = <<"a">>)
  /\ TierInit /\ (IF live = "tiers" THEN Cardinality(Configured) = 1 ELSE Configured = {})
  /\ TagsInit /\ (live # "tags" => tags = {} /\ modelWanted = "m")
  /\ LibraryInit /\ (live # "library" => mode = "block")
  /\ CaInit /\ (live # "ca" => platform = "linux" /\ key = NoFile /\ cert = NoFile)
  /\ LaunchInit /\ (live # "launch" => ~wanted.api /\ ~wanted.configured)
  /\ SetupInit /\ (live # "setup" => installed = {} /\ config = NoConfig)

Only(p) ==
  /\ live = p /\ UNCHANGED live
  /\ IF p = "config" THEN TRUE ELSE UNCHANGED cfgVars
  /\ IF p = "rules" THEN TRUE ELSE UNCHANGED engineVars
  /\ IF p = "terms" THEN TRUE ELSE UNCHANGED termVars
  /\ IF p = "proxy" THEN TRUE ELSE UNCHANGED proxyVars
  /\ IF p = "bench" THEN TRUE ELSE UNCHANGED benchVars
  /\ IF p = "text" THEN TRUE ELSE UNCHANGED scanTextVars
  /\ IF p = "firewall" THEN TRUE ELSE UNCHANGED fwVars
  /\ IF p = "tiers" THEN TRUE ELSE UNCHANGED tierVars
  /\ IF p = "tags" THEN TRUE ELSE UNCHANGED tagsVars
  /\ IF p = "library" THEN TRUE ELSE UNCHANGED libraryVars
  /\ IF p = "ca" THEN TRUE ELSE UNCHANGED caVars
  /\ IF p = "launch" THEN TRUE ELSE UNCHANGED launchVars
  /\ IF p = "setup" THEN TRUE ELSE UNCHANGED setupVars
  /\ IF p = "relay" THEN TRUE ELSE UNCHANGED vars

PartsNext ==
  \/ Only("config") /\ CfgNext
  \/ Only("rules") /\ EngineNext
  \/ Only("terms") /\ TermNext
  \/ Only("proxy") /\ SysNext
  \/ Only("bench") /\ WorkNext
  \/ Only("text") /\ TextNext
  \/ Only("firewall") /\ FwNext
  \/ Only("tiers") /\ TierNext
  \/ Only("tags") /\ TagsNext
  \/ Only("library") /\ LibraryNext
  \/ Only("ca") /\ CaNext
  \/ Only("launch") /\ LaunchNext
  \/ Only("setup") /\ SetupNext
  \/ Only("relay") /\ Next

partVars == <<live, cfgVars, engineVars, termVars, proxyVars, benchVars,
              scanTextVars, fwVars, tierVars, tagsVars, libraryVars, caVars, launchVars, setupVars, vars>>

PartsSpec == PartsInit /\ [][PartsNext]_partVars

-----------------------------------------------------------------------------
(***************************************************************************)
(* Values of the constants.                                                *)
(***************************************************************************)
M(c,h,a,t,f) == [category |-> c, hosts |-> h, app |-> a, time |-> t, confidence |-> f]
MCRule ==
  [high |-> [priority |-> 1, enabled |-> TRUE, match |-> M(Any, {"chat"}, "curl", <<>>, 0)],
   low  |-> [priority |-> 0, enabled |-> TRUE, match |-> M("SSN", {}, Any, <<2, 0>>, 0)],
   twin |-> [priority |-> 0, enabled |-> TRUE, match |-> M(Any, {}, Any, <<>>, 1)],
   off  |-> [priority |-> 1, enabled |-> FALSE, match |-> M(Any, {}, Any, <<>>, 0)]]
MCNames == {"high","low","twin","off"}
MCContexts == [category : {"SSN"}, host : {"chat","other"}, app : {"curl"}, now : 0..2, confidence : {1}] \cup
  {[category |-> "EMAIL", host |-> "chat", app |-> "mail", now |-> 0, confidence |-> 0]}
MCFileRules == <<"low", "off">>

MCNumbers == {2,3,4}
MCPrefixes == {<<"P">>, <<"PII">>} \cup ({"P","PII"} \X MCNumbers)
                \cup ({"P","PII"} \X MCNumbers \X MCNumbers)
MCCanonical == {<<"PII">>}
MCDerive == [t1 |-> <<"P">>, t2 |-> <<"P">>, t3 |-> <<"P", 2>>]
MCNumbered == [x \in MCPrefixes \X MCNumbers |->
  IF Len(x[1]) < 3 THEN Append(x[1], x[2]) ELSE <<x[1][1], x[1][2], x[2]>>]
MCTerms == {"t1","t2","t3"}

MCTexts ==
  {<<"a">>, <<"a", "a", "b", "a", "a">>, <<"a","b","s","a","s","a","a","b">>,
   <<"a","s","n","n","s","a","a","b","a">>,
   <<"a","a","a","a","a","s","a","b","a">>}
  \cup {t \in [1..8 -> {"a","n"}] : \A i \in {1,3,4,7,8} : t[i] = "a"}
  \cup {t \in [1..9 -> {"a","n"}] : \A i \in {1,3,5,6,8,9} : t[i] = "a"}
MCOther == {{}, {<<0,0>>}, {<<0,3>>,<<1,2>>}, {<<1,3>>,<<2,4>>,<<4,5>>}, {<<2,4>>,<<0,3>>,<<0,1>>}}

MCSamples == [b \in {"b1","b2"} |-> IF b = "b1" THEN 1 ELSE 2]
MCB == {"b1","b2"}

D(s,e,c) == [start |-> s, end |-> e, category |-> c]
MCResults ==
  {<<>>, <<D(0,0,"note")>>, <<D(0,2,"pii")>>, <<D(1,2,"card"), D(3,4,"pii")>>, <<D(2,4,"note")>>, <<D(1,3,"key")>>}
MCDecides == [pii |-> "redact", card |-> "redact", note |-> "allow", key |-> "block"]
MCMark == [pii |-> 1, card |-> 3, note |-> 2, key |-> 1]
MCLen == <<4, 3>>

MCRuleOf == [c \in {"block", "redact"} |-> c]
W(c, v) == [c |-> c, v |-> v, n |-> 0]
MCWritings ==
  {<<W("plain", "x")>>, <<W("redact", "1")>>, 
   <<W("redact", "2"), W("plain", "x"), W("redact", "1")>>,
   <<W("redact", "1"), W("redact", "2"), W("redact", "1")>>, <<W("block", "1"), W("redact", "2")>>,
   <<[c |-> "redact", v |-> "token", n |-> 1], W("redact", "2")>>}

OneLetter == {"a"}
OneOther  == {"\n"}
OneToken  == {<<"[", "a", "]">>}
ValueOf(token) == "value"
OwnChannel(s) == s

MCModelOf == [minimal |-> "qwen3:1.7b", balanced |-> "gemma4:e2b", quality |-> "gemma4:e4b"]
MCStackKeyOf == [minimal |-> "qwen3_1_7b", balanced |-> "gemma4_e2b", quality |-> "gemma4_e2b"]
MCResolves == [qwen3_1_7b |-> "qwen3:1.7b", gemma4_e2b |-> "gemma4:e2b"]

=============================================================================
