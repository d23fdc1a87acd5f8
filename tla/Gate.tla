--------------------------------- MODULE Gate ---------------------------------
(***************************************************************************)
(* Who may see the house pages: Caller, Allowed and the routing of         *)
(* ServeHTTP in internal/house/house.go, as operators.  A network is the   *)
(* set of its addresses, a forwarded chain a sequence, left to right.      *)
(***************************************************************************)
EXTENDS Integers, Sequences, FiniteSetsExt

CONSTANT NoAddress   \* what does not parse as an address

\* A mutant of Caller that reads the chain from the left.
CallerFromLeft(peer, chain, proxies) ==
  LET walk[i \in 1..(Len(chain) + 1)] ==
        IF i > Len(chain) THEN peer
        ELSE IF chain[i] \notin proxies THEN chain[i]
        ELSE walk[i + 1]
  IN IF peer \notin proxies THEN peer ELSE walk[1]

\* Caller: from the right, past the proxies that are trusted; what does not parse
\* is nobody.  Without a trusted peer the header is not believed at all.
Caller(peer, chain, proxies) ==
  LET walk[i \in 0..Len(chain)] ==
        IF i = 0 THEN peer
        ELSE IF chain[i] \notin proxies THEN chain[i]
        ELSE walk[i - 1]
  IN IF peer \notin proxies THEN peer ELSE walk[Len(chain)]

\* Allowed
Allowed(peer, chain, allow, proxies) ==
  LET ip == Caller(peer, chain, proxies) IN ip # NoAddress /\ ip \in allow

\* ServeHTTP: the gate, then the admin area (which polices its own methods), then
\* the method, then the page.
Route(allowed, area, method) ==
  CASE ~allowed                        -> "not found"
    [] allowed /\ area = "admin"       -> "admin"
    [] allowed /\ area # "admin"
       /\ method \notin {"GET", "HEAD"} -> "method not allowed"
    [] OTHER                           -> area

\* The reference for Caller: "the rightmost forwarded address that is not itself
\* a trusted proxy", and an untrusted peer's header is ignored.
LastStranger(peer, chain, proxies) ==
  LET strangers == {i \in DOMAIN chain : chain[i] \notin proxies}
  IN  IF peer \in proxies /\ strangers # {} THEN chain[Max(strangers)] ELSE peer
==============================================================================
