SPECIFICATION Spec
CONSTANTS
  p = p
  m = m
  c = c
  pn = pn
  mn = mn
  cn = cn
  kn = kn
  pw = pw
  mw = mw
  cw = cw
  kw = kw
  sp = sp
  tp = tp
  sn = sn
  tn = tn
  sw = sw
  tw = tw
  NoScope = NoScope
  NoRec = NoRec
  Gone = Gone
  Root = 0
  Services <- MCServices
  Tokens <- MCTokens
  RecIds <- MCRecIds
  ScopeIds <- MCScopeIds
  Plugins <- MCPlugins
  Form <- MCForm
  Requires <- MCRequires
  Provides <- MCProvides
  Offers <- MCOffers
  Loads <- MCLoads
  Evicts <- MCEvicts
  Throws <- MCThrows
  Products <- ChainOnly
  HostUnloads <- MCUnloads
  HostWatchers = {}
  Fallback <- MCFallback
  Retire <- MCRetire
  Level <- MCLevel
INVARIANT
  StoppedBeforeUnmap
