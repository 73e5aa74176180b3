------------------------------ MODULE MCContext ------------------------------
(***************************************************************************)
(* Small products for Context, with plugins and services of their own; a   *)
(* .cfg says which of them a host may run.                                 *)
(***************************************************************************)
EXTENDS ContextLayers

CONSTANTS p, m, c, pn, mn, cn, kn, pw, mw, cw, kw, sp, tp, sn, tn, sw, tw

MCPlugins == {p, m, c, pn, mn, cn, kn, pw, mw, cw, kw}
MCServices == {sp, tp, sn, tn, sw, tw}
MCTokens == 0..8
MCRecIds == 1..4
MCScopeIds == 0..4
HostWatch(svc) == {[tok |-> 0, svc |-> svc, rec |-> NoRec, host |-> 0]}

NoPlugins == [x \in MCPlugins |-> {}]
NoServices == [x \in MCServices |-> {}]

(* Chain: p provides sp; m requires sp and provides tp; c requires both.   *)
Chain ==
  [plugins |-> {p, m, c}, loads |-> {p, m, c}, provides |-> {}, twice |-> {p, c},
   size |-> 3, reserve |-> 2]

(* Nested: mn requires sn, provides tn, loads a dynamic child kn that      *)
(* requires tn, and may unload its sibling cn; mn, cn and the host compete *)
(* for tn. The whole nest stops when the provider pn is unloaded.          *)
Nested ==
  [plugins |-> {pn, mn, cn, kn}, loads |-> {pn, mn, cn}, provides |-> {tn}, twice |-> {},
   size |-> 4, reserve |-> 4]

(* Watched: the host watches sw, which pw provides before it may throw;    *)
(* when sw is lost the host may load mw or unload kw, which are not        *)
(* involved in the loss of sw, while cw waits for sw and for mw's tw.      *)
Watched ==
  [plugins |-> {pw, mw, cw, kw}, loads |-> {pw, mw, cw, kw}, provides |-> {}, twice |-> {},
   size |-> 4, reserve |-> 3]

MCProducts == {Chain, Nested, Watched}

MCForm ==
  (p :> "dynamic") @@ (m :> "object") @@ (c :> "class")
  @@ (pn :> "class") @@ (mn :> "function") @@ (cn :> "object") @@ (kn :> "dynamic")
  @@ (pw :> "dynamic") @@ (mw :> "function") @@ (cw :> "class") @@ (kw :> "object")
MCRequires ==
  (m :> <<sp>>) @@ (c :> <<tp, sp>>) @@ (mn :> <<sn>>) @@ (kn :> <<tn>>)
  @@ (cw :> <<sw, tw>>) @@ [x \in MCPlugins |-> <<>>]
MCProvides ==
  (p :> {sp}) @@ (m :> {tp}) @@ (pn :> {sn}) @@ (mn :> {tn}) @@ (cn :> {tn})
  @@ (pw :> {sw}) @@ (mw :> {tw}) @@ (cw :> {sw}) @@ NoPlugins
MCLoads == [NoPlugins EXCEPT ![mn] = {kn}]
MCEvicts == [NoPlugins EXCEPT ![mn] = {cn}]
MCThrows == {m, mn, kn, pw}
MCUnloads == {p, m, c, pn, cw, kw}
MCWatchers == HostWatch(sw)
MCFallback == [NoServices EXCEPT ![sw] = {mw}]
MCRetire == [NoServices EXCEPT ![sw] = {kw}]

(* Unmap: the chain alone.                                                 *)
ChainOnly == {Chain}

(* Failover: mw is a second provider of sw, loaded by the host's watcher   *)
(* when sw is lost.                                                        *)
Failover == {[Watched EXCEPT !.loads = {pw, cw}]}
FailoverProvides == [NoPlugins EXCEPT ![pw] = {sw}, ![mw] = {sw}]
FailoverRequires == (cw :> <<sw>>) @@ [x \in MCPlugins |-> <<>>]

(* Retire: the host's watcher unloads the consumer of the service that is  *)
(* lost.                                                                   *)
Retiring == {[Watched EXCEPT !.plugins = {pw, cw}, !.loads = {pw, cw}]}
RetireConsumer == [NoServices EXCEPT ![sw] = {cw}]

(* Wild: what the discipline of ContextLayers forbids. cw requires the sw  *)
(* that pw, mw and the host compete for, evicts pw and itself from its own *)
(* apply(), and whichever of sw and cw's tw is lost, the host loads mw or  *)
(* unloads pw or cw - the plugin whose stop it is told about among them.   *)
Wild ==
  {[plugins |-> {pw, mw, cw}, loads |-> {pw, cw}, provides |-> {sw}, twice |-> {},
    size |-> 3, reserve |-> 3]}
WildProvides == [FailoverProvides EXCEPT ![cw] = {tw}]
WildEvicts == [NoPlugins EXCEPT ![cw] = {pw, cw}]
WildUnloads == {pw, cw}
WildWatchers == HostWatch(sw) \cup {[tok |-> 1, svc |-> tw, rec |-> NoRec, host |-> 0]}
WildFallback == [NoServices EXCEPT ![sw] = {mw}, ![tw] = {mw}]
WildRetire == [NoServices EXCEPT ![sw] = {pw, cw}, ![tw] = {pw, cw}]

(* The ids that one scope may provide twice: m in Chain provides tp again, *)
(* in Wild anyone sw, as its owner or not.                                 *)
MCOffers == [s \in MCServices |-> IF s = tp THEN 2 ELSE 1]
WildOffers == [s \in MCServices |-> IF s = sw THEN 2 ELSE 1]

(* The ranks of the plugins.                                               *)
MCLevel ==
  [x \in {p, pn, pw} |-> 0] @@ [x \in {m, mn, mw, kw} |-> 1]
  @@ [x \in {c, cn, cw} |-> 2] @@ [x \in {kn} |-> 3]

(* Failover and Wild cannot keep to the discipline: there mw provides the  *)
(* service whose loss gets it loaded. Every other product does.            *)
ASSUME LayeredProducts == (Products \in {Failover, Wild}) # Layered
=============================================================================
