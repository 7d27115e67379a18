----------------------------- MODULE Quantities -----------------------------
(***************************************************************************)
(* Lists of resource quantities (v1.ResourceList) and what is shown of     *)
(* them: pkg/kube/resource.go and pkg/kube/common.go.  A quantity is a     *)
(* natural number of small units, Scale of which make one millicore, byte  *)
(* or GPU: resource.Quantity is exact, and only MilliValue() and Value()   *)
(* round.  A percentage is a number of hundredths of a percent.            *)
(***************************************************************************)
EXTENDS Integers, FiniteSets

CONSTANTS
  Resource,    \* resource names
  Scale,       \* small units in one unit that MilliValue or Value count
  Mebi         \* bytes in 1Mi

ASSUME QuantitiesAssumption == Scale \in Nat \ {0} /\ Mebi \in Nat \ {0}

IsResourceList(l) == DOMAIN l \subseteq Resource /\ l \in [DOMAIN l -> Nat]
EmptyList == [r \in {} |-> 0]

\* list[r], which is the zero Quantity when the key is absent.
Amount(list, r) == IF r \in DOMAIN list THEN list[r] ELSE 0

-----------------------------------------------------------------------------
(* Combining lists; Mut*: what a plausible bug would do.                   *)

MutAddResourceList(list, new) ==
  [r \in DOMAIN list \cup DOMAIN new |-> Amount(list, r) - Amount(new, r)]
MutOverwrite(list, new) ==
  [r \in DOMAIN list \cup DOMAIN new |->
     IF r \in DOMAIN new THEN new[r] ELSE list[r]]
addResourceList(list, new) ==
  [r \in DOMAIN list \cup DOMAIN new |-> Amount(list, r) + Amount(new, r)]

Larger(x, y) == IF x > y THEN x ELSE y

MutSumInit(list, new) == addResourceList(list, new)
MutMaxResourceList(list, new) ==
  [r \in DOMAIN list \cup DOMAIN new |->
     IF r \in DOMAIN list THEN list[r] ELSE new[r]]
maxResourceList(list, new) ==
  [r \in DOMAIN list \cup DOMAIN new |-> Larger(Amount(list, r), Amount(new, r))]

\* The overhead is added to the limits that are there and not zero.
MutAddToEvery(limits, overhead) == addResourceList(limits, overhead)
MutAddToNone(limits, overhead) == limits
addToNonZero(limits, overhead) ==
  [r \in DOMAIN limits |->
     IF limits[r] = 0 THEN 0 ELSE limits[r] + Amount(overhead, r)]

\* The sum of the first m quantities of f, to define what the loops compute.
Total(f, m) ==
  LET sum[k \in 0..m] == IF k = 0 THEN 0 ELSE sum[k - 1] + f[k]
  IN  sum[m]

-----------------------------------------------------------------------------
(* What is shown.                                                          *)

\* MilliValue() and Value() round up to whole units.
Units(q) == (q + Scale - 1) \div Scale

\* The number in a cell; memory is shown in whole Mi, rounded down.
String(r, units) == IF r = "memory" THEN units \div Mebi ELSE units

\* The float is printed with two decimals: the nearest hundredth, and either
\* neighbour of an exact half.  Without a divisor the answer is 0.
calcPercentage(dividend, divisor) ==
  IF divisor = 0 THEN {0}
  ELSE LET doubled == 20000 * dividend + divisor
           nearest == doubled \div (2 * divisor)
       IN  {nearest} \cup IF doubled % (2 * divisor) = 0 THEN {nearest - 1} ELSE {}

warning_threshold  == 9000
critical_threshold == 9500

\* The cell is parsed back (float64ToString and FieldString are inverse of one
\* another on two decimals) and compared strictly.
MutExceedsCompare(pct) ==
  IF pct >= critical_threshold THEN "red"
  ELSE IF pct >= warning_threshold THEN "yellow" ELSE "plain"
ExceedsCompare(pct) ==
  IF pct > critical_threshold THEN "red"
  ELSE IF pct > warning_threshold THEN "yellow" ELSE "plain"
=============================================================================
