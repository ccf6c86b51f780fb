------------------------- MODULE StatementMatching -------------------------
(* agents/reconciliation-agent without its runs: how a statement is split   *)
(* into what is matched and the cases that are left (reconcile.ts), what    *)
(* the model sees of a case (redact.ts) and what it may answer (llm.ts).    *)
(*                                                                          *)
(* A counterparty is <<slug, spelling>>: its name, and what the name's      *)
(* letters and digits reduce to.  A label is the sequence of its parts, a   *)
(* prefix is a prefix of that.  The hashes are taken to be injective.       *)
EXTENDS Integers, Sequences, FiniteSets, FiniteSetsExt

Transaction(id, c, cents, day, label) ==
  [id |-> id, counterparty |-> c, amountCents |-> cents, dayOffset |-> day, label |-> label]
Statement(period, booked, transactions) ==
  [periodStart |-> period, applicationLines |-> booked, transactions |-> transactions]

-----------------------------------------------------------------------------
(* Rules: the grammar of their predicates is closed.                        *)
StartsWith(label, prefix) ==
  Len(prefix) <= Len(label) /\ \A i \in 1..Len(prefix) : label[i] = prefix[i]
Within(x, y, distance) == x - y <= distance /\ y - x <= distance

predicateMatches(p, t) ==
  \/ p.kind = "label-prefix" /\ StartsWith(t.label, p.prefix)
  \/ p.kind = "amount-tolerance" /\ Within(t.amountCents, p.amountCents, p.toleranceCents)
  \/ p.kind = "date-window" /\ Within(t.dayOffset, p.dayOffset, p.windowDays)

ruleKey(c, p) == <<c, p>>
learnRule(c, p, action) == [key |-> ruleKey(c, p), counterparty |-> c, predicate |-> p, actionId |-> action]

(* The rules are tried in the order of the list: the place of the first one *)
(* that settles a line, in a set that is empty when there is none.          *)
Settling(rules, t) ==
  {i \in DOMAIN rules : rules[i].counterparty = t.counterparty /\ predicateMatches(rules[i].predicate, t)}
ruleFor(rules, t) == {i \in Settling(rules, t) : \A j \in Settling(rules, t) : i <= j}

-----------------------------------------------------------------------------
(* reconcile.  Transactions are told apart by their place in the statement. *)
matchesDeterministically(st, i) == st.transactions[i].id \in st.applicationLines

(* Mutant: a rule settles whatever its predicate matches.                   *)
RuleOfAnyone(st, rules) ==
  {i \in DOMAIN st.transactions :
     /\ ~matchesDeterministically(st, i)
     /\ \A j \in DOMAIN rules : ~predicateMatches(rules[j].predicate, st.transactions[i])}

residue(st, rules) ==
  {i \in DOMAIN st.transactions : ~matchesDeterministically(st, i) /\ Settling(rules, st.transactions[i]) = {}}
matched(st, rules) == DOMAIN st.transactions \ residue(st, rules)
rulesApplied(st, rules) ==
  {rules[n].key : n \in UNION {ruleFor(rules, st.transactions[i]) :
                               i \in {j \in matched(st, rules) : ~matchesDeterministically(st, j)}}}

byCounterparty(st, rules, c) == {i \in residue(st, rules) : st.transactions[i].counterparty = c}

(* The slug is for people; two names may share it.                          *)
caseIdFor(period, c) == <<"case", period, c[1], c>>
Amounts(st) == [i \in DOMAIN st.transactions |-> st.transactions[i].amountCents]
Total(amounts, S) == MapThenSumSet(LAMBDA i : amounts[i], S)
Cluster(st, rules, c) ==
  [caseId |-> caseIdFor(st.periodStart, c), counterparty |-> c, transactions |-> byCounterparty(st, rules, c),
   deltaCents |-> Total(Amounts(st), byCounterparty(st, rules, c))]
clusters(st, rules) ==
  {Cluster(st, rules, c) : c \in {st.transactions[i].counterparty : i \in residue(st, rules)}}

-----------------------------------------------------------------------------
(* The curated rules: one per key, the first that was learned.              *)
curated(rules, r) == IF \E i \in DOMAIN rules : rules[i].key = r.key THEN rules ELSE Append(rules, r)

(* The rule a confirmed case teaches.                                       *)
Confirmed(cluster, action) ==
  learnRule(cluster.counterparty, [kind |-> "label-prefix", prefix |-> <<"ADJ-">>], action)

-----------------------------------------------------------------------------
(* What the model sees: no name, no number of a label.                      *)
Digits == {"1", "2"}
labelShape(label) ==
  IF Len(label) = 2 /\ label[1] \in {"ADJ-", "INV-"} /\ label[2] \in Digits THEN <<label[1], "<n>">> ELSE <<"unknown">>

InOrder(S) == [n \in 1..Cardinality(S) |-> CHOOSE i \in S : Cardinality({j \in S : j <= i}) = n]
redactCluster(st, cluster) ==
  LET at == InOrder(cluster.transactions) IN
    [deltaCents |-> cluster.deltaCents,
     lines |-> [n \in DOMAIN at |-> LET t == st.transactions[at[n]] IN
                  [amountCents |-> t.amountCents, dayOffset |-> t.dayOffset, labelShape |-> labelShape(t.label)]]]

hasDuplicateLine(lines) ==
  \E i, j \in DOMAIN lines : i < j /\ lines[i].amountCents = lines[j].amountCents /\ lines[i].dayOffset = lines[j].dayOffset

Causes == {"posted-to-sibling-account", "timing-next-period", "partial-payment",
           "fee-deducted-at-source", "duplicate-posting"}

(* The later of its conditions that hold wins.                              *)
Small == 5000
triageWith(input) ==
  IF hasDuplicateLine(input.lines) THEN "duplicate-posting"
  ELSE IF Len(input.lines) > 1 THEN "partial-payment"
  ELSE IF input.lines = <<>> THEN "timing-next-period"
  ELSE IF input.lines[1].amountCents < Small THEN "fee-deducted-at-source"
  ELSE IF input.lines[1].labelShape[1] = "ADJ-" THEN "posted-to-sibling-account" ELSE "timing-next-period"

-----------------------------------------------------------------------------
(* No line of a statement is lost and none is asked about twice: it is      *)
(* matched, or in the one case of its counterparty, and no two              *)
(* counterparties have the same case, whatever their names reduce to.       *)
EachLineIsPlaced(st, rules) ==
  LET cases == clusters(st, rules) IN
    /\ \A i \in DOMAIN st.transactions :
         /\ i \in matched(st, rules) <=> \A k \in cases : i \notin k.transactions
         /\ \A k \in cases : i \in k.transactions => st.transactions[i].counterparty = k.counterparty
    /\ \A k, l \in cases : k.caseId = l.caseId => k = l

(* A rule only ever settles lines, those of its own counterparty: what was  *)
(* matched stays so by the rule that matched it, and the cases of everybody *)
(* else are as they were.                                                   *)
LearningIsLocal(st, rules, r) ==
  LET after == curated(rules, r) IN
    /\ matched(st, rules) \subseteq matched(st, after)
    /\ rulesApplied(st, rules) \subseteq rulesApplied(st, after)
    /\ \A c \in {st.transactions[i].counterparty : i \in DOMAIN st.transactions} :
         c # r.counterparty => byCounterparty(st, rules, c) = byCounterparty(st, after, c)

(* Once a case is confirmed the lines it was about are not asked about      *)
(* again, as far as the rule it taught goes.                                *)
ConfirmedIsSettled(st, rules) ==
  \A k \in clusters(st, rules) :
    \A i \in byCounterparty(st, curated(rules, Confirmed(k, "action")), k.counterparty) :
      ~StartsWith(st.transactions[i].label, <<"ADJ-">>)

(* What the model sees, but for a pseudonym it is not told the meaning of,  *)
(* does not depend on names and numbers.                                    *)
Hidden(t) ==
  [t EXCEPT !.counterparty = <<@[1], "renamed", @[2]>>, !.label = <<@[1], IF @[2] \in Digits THEN "2" ELSE "y">>]
Renamed(st) == [st EXCEPT !.transactions = [i \in DOMAIN @ |-> Hidden(@[i])]]
Seen(st) == {redactCluster(st, k) : k \in clusters(st, <<>>)}
ModelIsBlind(st) == Seen(st) = Seen(Renamed(st))

(* And still it can tell every cause.                                       *)
EveryCauseIsReached(S) == Causes \subseteq UNION {{triageWith(input) : input \in Seen(st)} : st \in S}

-----------------------------------------------------------------------------
(* Statements of two lines, each booked or not, of two counterparties whose *)
(* names reduce to one slug.                                                *)
Vendors == {<<"vendor-a", "Vendor_A">>, <<"vendor-a", "Vendor-A">>}
Lines == [counterparty : Vendors, amountCents : {4000, 6000}, dayOffset : {0, 9},
          label : {<<"ADJ-", "1">>, <<"ADJ-", "x">>, <<"INV-", "1">>}]
Listing(booked, ls) ==
  Statement("2026-09", booked,
            [i \in DOMAIN ls |-> Transaction(i, ls[i].counterparty, ls[i].amountCents, ls[i].dayOffset, ls[i].label)])
OneOrTwo == {<<l>> : l \in Lines} \cup (Lines \X Lines)
Statements == {Listing(booked, ls) : booked \in {{}, {1}}, ls \in OneOrTwo}
Predicates == {[kind |-> "label-prefix", prefix |-> <<"ADJ-">>],
               [kind |-> "amount-tolerance", amountCents |-> 4500, toleranceCents |-> 500],
               [kind |-> "date-window", dayOffset |-> 1, windowDays |-> 1]}
Rules == {learnRule(c, p, "action") : c \in Vendors, p \in Predicates}
RuleLists == {<<>>} \cup {<<r>> : r \in Rules}

(* Every line of a statement ends in one place, rules settle what they are  *)
(* about and nothing else, and the model is asked about shapes only.        *)
CasesAreCutRightly ==
  /\ EveryCauseIsReached(Statements)
  /\ \A st \in Statements :
       /\ ModelIsBlind(st)
       /\ \A rules \in RuleLists :
            /\ EachLineIsPlaced(st, rules) /\ ConfirmedIsSettled(st, rules)
            /\ \A r \in Rules : LearningIsLocal(st, rules, r)
=============================================================================
