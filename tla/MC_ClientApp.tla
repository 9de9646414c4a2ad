----------------------------- MODULE MC_ClientApp -----------------------------
(***************************************************************************)
(* Small instances for TLC of what the frontend does for its own user.     *)
(* The programs share no state and each has properties of its own, so one  *)
(* of them runs in a behaviour, chosen at the start, and the others stay   *)
(* in their initial states.                                                *)
(***************************************************************************)
EXTENDS OptimisticCache, OptimisticRollup, ContractCalls, WalletSession, ClientFeeds,
        ValidationRules

VARIABLE program    \* the program that runs in this behaviour

\* The rules tried: every kind of node over the values that conversions tell apart, and
\* trees as deep and as wide as the limits allow, and a little more.
Lit(v) == [kind |-> "lit", value |-> v]
Field == [kind |-> "field"]
Leaves ==
    {Field, [kind |-> "now"]}
    \cup {Lit(v) : v \in {Null, Bool(TRUE), Num(0), Num(1), Str(""), Str("1")}}
SomeLeaves == {Field, Lit(Null), Lit(Num(1)), Lit(Str(""))}
Pairs == {<<>>} \cup {<<a, b>> : a \in SomeLeaves, b \in SomeLeaves}
Binary(kind, ops, L, R) == [kind : {kind}, op : ops, left : L, right : R]
Flat ==
    Binary("compare", {"==", "!=", ">", ">=", "<", "<="}, {Field}, Leaves)
    \cup Binary("arith", {"+", "-", "*", "%"}, {Field}, Leaves)
    \cup [kind : {"not"}, operand : Leaves]
    \cup [kind : {"and", "or"}, operands : Pairs]
    \cup [kind : {"in"}, value : SomeLeaves, set : Pairs]
    \cup [kind : {"match"}, operand : {Field}, pattern : {"x"}]
    \cup [kind : {"call"}, operand : Leaves,
          fn : {"toNumber", "abs", "days", "hours", "len", "trim", "isBlank"}]
Deep ==
    [kind : {"not"}, operand : Flat]
    \cup Binary("compare", {"==", "<"}, Flat, {Field, Lit(Num(0))})
    \cup [kind : {"and"}, operands : {<<Field, b, Field>> : b \in SomeLeaves}]
    \cup [kind : {"or"}, operands : {<<a, [kind |-> "not", operand |-> Field]>> : a \in Flat}]
Deeper ==
    [kind : {"not"}, operand : [kind : {"not"}, operand : [kind : {"not"}, operand : Leaves]]]
MC_RuleTexts ==
    [assert : Leaves \cup Flat \cup Deep \cup Deeper, when : {None}]
    \cup [assert : {Field}, when : Flat]
MC_FieldValues ==
    {Null, NaN, Bool(FALSE), Num(-1), Num(0), Num(1)}
    \cup {Str(Strings[i]) : i \in DOMAIN Strings}

\* The patterns tried: repetitions of every kind in groups of every kind, two deep.
Repeated(T) == [node : {"quantified"}, atom : T, by : {"*", "{2}", "?", "{1}"}, lazy : BOOLEAN]
Simple ==
    {Letter} \cup [node : {"quantified"}, atom : {Letter}, by : Repetitions \cup Others,
                   lazy : BOOLEAN]
FewSimple == {Letter, Quantified(Letter, "+", FALSE), Quantified(Letter, "?", TRUE)}
Groups(S, T) ==
    {Group("(", <<<<a>>>>) : a \in S}
    \cup {Group("(?:", <<<<a, b>>, <<c>>>>) : a \in T, b \in T, c \in T}
    \cup {Group("(?<name>", <<<<>>, <<a>>, <<b>>>>) : a \in T, b \in T}
Grouped == Groups(Simple, FewSimple)
MC_Patterns ==
    Simple \cup Grouped \cup Repeated(Grouped)
    \cup Groups(Repeated(Grouped), {Letter})
    \cup Repeated(Groups(Repeated(Grouped), {Letter}))
    \cup {Group("(", <<<<a, Quantified(Letter, "*", TRUE)>>>>) : a \in Repeated(Grouped)}

clientAppVars == <<program, optVars, rollupVars, treeVars, callVars, walletVars,
                   localVars, liveVars, dashVars, ruleVars, regexVars>>

ClientAppInit ==
    /\ program \in {"slices", "rollup", "tree", "calls", "wallet", "index", "events",
                     "dashboard", "rules", "patterns"}
    /\ OptInit /\ RollupInit /\ TreeInit /\ CallInit /\ WalletInit /\ LocalInit
    /\ LiveInit /\ DashInit /\ RulesInit /\ RegexInit

ClientAppNext ==
    /\ UNCHANGED program
    /\ \/ /\ program = "slices" /\ OptNext
          /\ UNCHANGED <<rollupVars, treeVars, callVars, walletVars, localVars,
                       liveVars, dashVars, ruleVars, regexVars>>
       \/ /\ program = "rollup" /\ RollupNext
          /\ UNCHANGED <<optVars, treeVars, callVars, walletVars, localVars, liveVars,
                       dashVars, ruleVars, regexVars>>
       \/ /\ program = "tree" /\ TreeNext
          /\ UNCHANGED <<optVars, rollupVars, callVars, walletVars, localVars,
                       liveVars, dashVars, ruleVars, regexVars>>
       \/ /\ program = "calls" /\ CallNext
          /\ UNCHANGED <<optVars, rollupVars, treeVars, walletVars, localVars,
                       liveVars, dashVars, ruleVars, regexVars>>
       \/ /\ program = "wallet" /\ WalletNext
          /\ UNCHANGED <<optVars, rollupVars, treeVars, callVars, localVars, liveVars,
                       dashVars, ruleVars, regexVars>>
       \/ /\ program = "index" /\ LocalNext
          /\ UNCHANGED <<optVars, rollupVars, treeVars, callVars, walletVars, liveVars,
                       dashVars, ruleVars, regexVars>>
       \/ /\ program = "events" /\ LiveNext
          /\ UNCHANGED <<optVars, rollupVars, treeVars, callVars, walletVars,
                       localVars, dashVars, ruleVars, regexVars>>
       \/ /\ program = "dashboard" /\ DashNext
          /\ UNCHANGED <<optVars, rollupVars, treeVars, callVars, walletVars,
                       localVars, liveVars, ruleVars, regexVars>>
       \/ /\ program = "rules" /\ RulesNext
          /\ UNCHANGED <<optVars, rollupVars, treeVars, callVars, walletVars,
                       localVars, liveVars, dashVars, regexVars>>
       \/ /\ program = "patterns" /\ RegexNext
          /\ UNCHANGED <<optVars, rollupVars, treeVars, callVars, walletVars,
                       localVars, liveVars, dashVars, ruleVars>>

\* Nodes answer or time out; the interval of the worker, the awaits of a poll and the
\* reconnection timer of the socket go on.
ClientAppFairness ==
    /\ \A s \in Submissions : WF_callVars(program = "calls" /\ NodeAnswers(s))
    /\ WF_localVars(program = "index" /\ PollStep)
    /\ WF_liveVars(program = "events" /\ ClientStep)

ClientAppSpec == ClientAppInit /\ [][ClientAppNext]_clientAppVars /\ ClientAppFairness
=============================================================================
