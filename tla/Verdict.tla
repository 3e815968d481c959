------------------------------- MODULE Verdict -------------------------------
(***************************************************************************)
(* How one address gets its decision: the providers answer concurrently,   *)
(* in any order; each answer is a list of weighted signals, and            *)
(* EvaluateDecision adds them up.                                          *)
(*                                                                         *)
(* Of an answer only what the score depends on is kept: whether it was     *)
(* usable, its weight, whether it has signals and whether one is strong.   *)
(* Of a decision, WouldBlock: Blocked is that in block mode, and nothing   *)
(* in log-only mode.                                                       *)
(***************************************************************************)
EXTENDS Integers, FiniteSets

CONSTANTS
  Keyed,       \* the providers an API key is configured for
  Threshold    \* Config.ScoreThreshold

ASSUME VerdictAssumption == Threshold \in Nat \ {0}

VARIABLES
  phase,       \* of the check
  answers,     \* results of queryProviders, NoAnswer where still awaited
  wouldBlock   \* Decision.WouldBlock, of the last check

verdictVars == <<phase, answers, wouldBlock>>

Optional  == {"ipqualityscore", "iplocate", "iphub", "vpnapi"}
\* buildProviders: two work without a key, the others only with one.
Providers == {"proxycheck", "ipapi.is"} \union (Optional \intersect Keyed)

-----------------------------------------------------------------------------
(* The answers.                                                             *)

Answer(weight, strong) ==
  [success |-> TRUE, weight |-> weight, signals |-> weight > 0, strong |-> strong]

Failed   == [success |-> FALSE, weight |-> 0, signals |-> FALSE, strong |-> FALSE]
NoAnswer == [success |-> FALSE, weight |-> -1, signals |-> FALSE, strong |-> FALSE]

If(b, w) == IF b THEN w ELSE 0

\* vpn and hosting both stand for proxy=yes with such a type.
ProxyCheck ==
  {Answer(If(vpn, 80) + If(hosting, 55) + If(risky /\ (vpn \/ hosting), 15), vpn) :
     vpn, hosting, risky \in BOOLEAN}

IpapiIS ==
  {Answer(If(vpn, 70) + If(datacenter, 20) + If(owner, 10), vpn) :
     vpn, datacenter, owner \in BOOLEAN}

IPHub == {Answer(w, FALSE) : w \in {0, 35, 15}}

\* An active VPN outweighs a VPN; hosting weighs more with proxy traffic.
IPQualityScore ==
  {Answer((IF active THEN 80 ELSE If(vpn, 70))
            + If(hosting, IF proxy THEN 25 ELSE 10)
            + If(risky /\ (active \/ vpn \/ hosting), 15), active \/ vpn) :
     active, vpn, hosting, proxy, risky \in BOOLEAN}

IPLocate ==
  {Answer(If(vpn, 70) + (IF hosting THEN 25 ELSE If(owner, 10)), vpn) :
     vpn, hosting, owner \in BOOLEAN}

VpnAPIIo == {Answer(If(vpn, 55), vpn) : vpn \in BOOLEAN}

Answers(p) ==
  {Failed} \union
    CASE p = "proxycheck"     -> ProxyCheck
      [] p = "ipapi.is"       -> IpapiIS
      [] p = "ipqualityscore" -> IPQualityScore
      [] p = "iplocate"       -> IPLocate
      [] p = "iphub"          -> IPHub
      [] p = "vpnapi"         -> VpnAPIIo

-----------------------------------------------------------------------------
(* EvaluateDecision.                                                        *)

Weight(r, p) == IF p \in Providers THEN r[p].weight ELSE 0

Score(r) == Weight(r, "proxycheck") + Weight(r, "ipapi.is") + Weight(r, "ipqualityscore")
            + Weight(r, "iplocate") + Weight(r, "iphub") + Weight(r, "vpnapi")

Successes(r) == {p \in Providers : r[p].success}
Detecting(r) == {p \in Providers : r[p].signals}
Strong(r)    == {p \in Providers : r[p].strong}

TwoDetect(r) == \E p, q \in Detecting(r) : p # q

\* Faulty: && and || without the parentheses.
BlockCandidateUnparenthesised(r) ==
  \/ Score(r) >= Threshold /\ Strong(r) # {}
  \/ TwoDetect(r)

\* Faulty: the threshold is held against the mean of the usable answers.
BlockCandidateByMean(r) ==
  /\ Successes(r) # {}
  /\ Score(r) >= Threshold * Cardinality(Successes(r))
  /\ Strong(r) # {} \/ TwoDetect(r)

BlockCandidate(r) ==
  /\ Successes(r) # {}
  /\ Detecting(r) # {}
  /\ Score(r) >= Threshold
  /\ Strong(r) # {} \/ TwoDetect(r)

-----------------------------------------------------------------------------
(* A check of an address whose decision is not cached.                      *)

VerdictTypeOK ==
  /\ phase \in {"idle", "asking", "decided"}
  /\ answers \in [Providers -> [success : BOOLEAN, weight : -1 .. 150,
                               signals : BOOLEAN, strong : BOOLEAN]]
  /\ wouldBlock \in BOOLEAN

VerdictInit ==
  /\ phase = "idle"
  /\ answers = [p \in Providers |-> NoAnswer]
  /\ wouldBlock = FALSE

CheckIP ==
  /\ phase # "asking"
  /\ phase' = "asking"
  /\ answers' = [p \in Providers |-> NoAnswer]
  /\ UNCHANGED wouldBlock

ProviderAnswers(p, a) ==
  /\ phase = "asking"
  /\ answers[p] = NoAnswer
  /\ answers' = [answers EXCEPT ![p] = a]
  /\ UNCHANGED <<phase, wouldBlock>>

\* wg.Wait and EvaluateDecision.
Evaluate ==
  /\ phase = "asking"
  /\ \A p \in Providers : answers[p] # NoAnswer
  /\ phase' = "decided"
  /\ wouldBlock' = BlockCandidate(answers)
  /\ UNCHANGED answers

VerdictNext ==
  \/ CheckIP \/ Evaluate
  \/ \E p \in Providers : \E a \in Answers(p) : ProviderAnswers(p, a)

VerdictSpec == VerdictInit /\ [][VerdictNext]_verdictVars

-----------------------------------------------------------------------------
(* Properties.                                                              *)

Without(r, p) == [r EXCEPT ![p] = Failed]

\* "If one provider fails, the others still run": an outage never makes the
\* verdict harsher.  Were any one of the answers a failure instead, nothing
\* would be blocked that is not blocked with it.
OutageNeverBlocks ==
  phase = "decided" =>
    \A p \in Providers : BlockCandidate(Without(answers, p)) => wouldBlock

\* Weak signals weigh 15 at most.  "This avoids blocking only because of one
\* weak or ambiguous signal": with the default threshold they never add up
\* to a block, whatever number of providers reports them.
WeakSignalsNeverBlock ==
  phase = "decided" /\ (\A p \in Providers : answers[p].weight <= 15) => ~wouldBlock

=============================================================================
