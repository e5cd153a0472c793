---------------------------- MODULE MCCompilation ----------------------------
(***************************************************************************)
(* Amendments for TLC: a policy on the amount of a grant (with a bond, an  *)
(* exemption, an exclusion, a deadline, an advisor), its changes, and the  *)
(* procedures that a portal may run for it.                                *)
(***************************************************************************)
EXTENDS Compilation

MCFields      == <<"amount", "category", "date">>
MCActions     == <<"BOND", "REPORT">>
MCEnums       == {"category"}
MCScoreFields == {"amount"}
MCBase        == [category |-> 0]
MCDefaults    == [amount |-> {4, 6}, category |-> {0}, date |-> {2}]
\* Amounts in ten thousands, one more or less for a bound; names of categories;
\* ISO dates.
MCTextRank(f, v) ==
  CASE f = "amount"   -> IF v < 10 THEN 20 * v - 1 ELSE 2 * v  \* 10, 12, 13, 3, 4
    [] f = "category" -> 1 - v                                 \* STAFF, general
    [] f = "date"     -> v                                     \* 2026-09-28, 2026-09-29
MCFallback    == [amount |-> 4]
MCBoundaryBase == [amount |-> 4, category |-> 0, date |-> 2]
MCOrderingCase == [date |-> 0]
MCGrid        == [amount |-> <<3, 6, 14>>, category |-> <<0, 1>>, date |-> <<0, 6>>]
MCDomain      == [amount : {3, 4, 5, 8, 9, 12, 13}, category : {0, 1}, date : {0, 1, 4, 5}]
-----------------------------------------------------------------------------
Rule(id, kind, action, condition) ==
  [rule_id |-> id, kind |-> kind, action |-> action, condition |-> condition, before |-> None,
   after |-> None, section |-> "1", sourced |-> TRUE, status |-> "active"]

Upto(id, v)  == Rule(id, "threshold", "eligible", Comparison("amount", "<=", {v}))
Least(id, v) == Rule(id, "threshold", "eligible", Comparison("amount", ">=", {v}))
NotStaff     == Rule("X1", "threshold", "eligible", Comparison("category", "NOT_IN", {1}))
Bond         == Rule("O1", "obligation", "BOND", NoCondition)
BondOver(v)  == Rule("O2", "conditional_obligation", "BOND", Comparison("amount", ">=", {v}))
Report       == Rule("O3", "obligation", "REPORT", NoCondition)
Term         == AllOf({Comparison("date", ">=", {0}), Comparison("date", "<=", {5})})
ReportWithin == Rule("O4", "conditional_obligation", "REPORT", Term)
StaffExempt  == Rule("E1", "exception", "BOND", Comparison("category", "==", {1}))
Until(id, v) == Rule(id, "deadline", None, Comparison("date", "<=", {v}))
From(id, v)  == Rule(id, "deadline", None, Comparison("date", ">=", {v}))
NoneOver(v)  == Rule("P1", "prohibition", None, Comparison("amount", ">", {v}))
Advisor      == [Rule("Q1", "prerequisite", None, NoCondition) EXCEPT !.before = "advisor", !.after = "submit"]
Check        == [Rule("Q2", "prerequisite", None, NoCondition) EXCEPT !.before = "review", !.after = "advisor"]
Moved(rules) == [i \in DOMAIN rules |-> [rules[i] EXCEPT !.section = "2"]]
Superseded(rules) == [i \in DOMAIN rules |-> [rules[i] EXCEPT !.status = "superseded"]]

MCAmendments ==
  LET T == Upto("T1", 8)
      base == <<T, Bond>>
  IN  {<<base, new>> : new \in
         {base, Moved(base), <<Upto("T2", 12), Bond>>, <<Upto("T2", 4), Bond>>, <<T>>, <<Bond>>,
          <<T, BondOver(4)>>, <<T, Bond, StaffExempt>>, <<T, Bond, Until("D1", 0)>>,
          <<T, Bond, NoneOver(4)>>, <<T, Bond, Advisor>>, <<T, Bond, Advisor, Check>>,
          <<T, Bond, NotStaff>>, <<T, Bond, Report>>, <<T, Bond, Report, StaffExempt>>,
          <<Upto("T2", 4), Bond, Advisor, StaffExempt>>, <<T, Upto("T2", 4)>>, <<T, Least("T2", 12)>>}}
      \cup {<<Superseded(base), <<Upto("T2", 12), Bond>>>>,
            <<<<Until("D1", 0)>>, <<Until("D2", 4)>>>>,
            <<<<Upto("T2", 4), T>>, <<T>>>>,
            <<<<Upto("T2", 4), T>>, <<Upto("T2", 4), T>>>>,
            <<<<T, Bond, StaffExempt>>, base>>,
            <<<<Least("T3", 4), T, Bond>>, base>>,
            <<<<T, Bond, From("D1", 0)>>, <<T, Bond, From("D2", 4)>>>>,
            <<<<T, Bond, BondOver(4)>>, <<T, BondOver(4), Bond>>>>,
            <<<<T, BondOver(4), Bond>>, <<T, Bond, BondOver(4)>>>>,
            <<<<Least("T1", 4), Bond>>, <<Least("T2", 8), Bond, StaffExempt>>>>,
            <<<<Least("T1", 8), Bond>>, <<Least("T1", 8), Bond, StaffExempt>>>>,
            <<<<Least("T1", 8), Bond, ReportWithin>>, <<Least("T1", 8), Bond, ReportWithin, StaffExempt>>>>,
            <<<<Least("T1", 8), BondOver(10), Bond, NotStaff, Until("D1", 0)>>,
              <<Least("T1", 8), Bond, BondOver(10), NotStaff, Until("D1", 0)>>>>,
            <<<<T, Bond, NotStaff>>, <<Upto("T2", 4), Bond>>>>,
            <<<<T, Bond, NoneOver(4)>>, <<Upto("T2", 4), Bond, NoneOver(4)>>>>,
            <<base, <<[T EXCEPT !.sourced = FALSE]>>>>}
-----------------------------------------------------------------------------
Step(id, kind) ==
  [id |-> id, kind |-> kind, test |-> NoCondition, action |-> None, required |-> FALSE,
   when |-> NoCondition, tokens |-> {}, links |-> {"R0"}]
Start  == [Step("NODE-START", "plain") EXCEPT !.links = {}]
Submit == [Step("NODE-SUBMIT", "plain") EXCEPT !.action = "submit", !.tokens = {"submit"}, !.links = {}]
Gate(v)     == [Step("NODE-GATE", "threshold_gate") EXCEPT !.test = Comparison("amount", "<=", {v})]
Entry(v)    == [Step("NODE-GATE", "threshold_gate") EXCEPT !.test = Comparison("amount", ">=", {v})]
Clock(v)    == [Step("NODE-CLOCK", "deadline_gate") EXCEPT !.test = Comparison("date", "<=", {v})]
Form(needed) == [Step("NODE-BOND", "form") EXCEPT !.action = "BOND", !.tokens = {"BOND"}, !.required = needed]
FormOver(v) == [Form(TRUE) EXCEPT !.when = Comparison("amount", ">=", {v})]
Survey == [Step("NODE-REPORT", "form") EXCEPT !.action = "REPORT", !.tokens = {"REPORT"}, !.required = TRUE]
SurveyWithin == [Survey EXCEPT !.when = Term]
Sign == [Step("NODE-ADVISOR", "approval") EXCEPT !.tokens = {"advisor"}]
Reviewed == [Step("NODE-REVIEW", "approval") EXCEPT !.tokens = {"review"}]
Exclude == [Step("NODE-GATE", "threshold_gate") EXCEPT !.test = Comparison("category", "NOT_IN", {1})]

Chain(nodes) ==
  [nodes |-> nodes, edges |-> [i \in 1..(Len(nodes) - 1) |-> Edge(nodes[i].id, nodes[i + 1].id)]]

\* Small grants are spared the bond, on an edge.
Branch(from, to, condition) == [from |-> from, to |-> to, type |-> "BRANCH", condition |-> condition]
Small == AllOf({Comparison("amount", ">=", {2}), Comparison("amount", "<=", {3})})

MCProcedures ==
  {Chain(<<Start>> \o middle \o <<Submit>>) : middle \in
     {<<>>, <<Gate(8), Form(TRUE)>>, <<Gate(12), FormOver(4)>>, <<Form(FALSE), Gate(8)>>,
      <<Entry(3)>>, <<Entry(3), SurveyWithin>>, <<Entry(3), Clock(0)>>,
      <<Gate(8), Clock(0), Form(TRUE), Sign>>, <<Sign, Exclude>>}}
  \cup {Chain(<<Start, Gate(8), Submit, Sign>>), Chain(<<Start, Gate(8), Submit, Sign, Reviewed>>),
        Chain(<<Start, Gate(8), Form(TRUE)>>),
        Chain(<<Form(TRUE), Gate(8), Submit>>),
        [Chain(<<Start, Gate(8), Form(TRUE), Submit>>) EXCEPT
           !.edges = [Append(@, Branch("NODE-GATE", "NODE-SUBMIT", Small)) EXCEPT
                        ![2] = Branch("NODE-GATE", "NODE-BOND", NoneOf(Small))]],
        [Chain(<<Start, Gate(8), Form(TRUE), Survey, Submit>>) EXCEPT
           !.edges = [Append(@, Branch("NODE-GATE", "NODE-SUBMIT", Small)) EXCEPT
                        ![2] = Branch("NODE-GATE", "NODE-BOND", NoneOf(Small))]],
        [Chain(<<Start, Gate(8), Submit>>) EXCEPT !.edges = Append(@, Edge("NODE-SUBMIT", "NODE-GATE"))]}

MCInputs == {[old |-> a[1], new |-> a[2], procedure |-> w] : a \in MCAmendments, w \in MCProcedures}

\* Traces of the portal: applicants for a small grant, one of them of the
\* staff, who gave a bond or a report.
Gave(case, actions) ==
  [case |-> case, outcome |-> [seen |-> [eligible |-> TRUE], required |-> << >>, completed |-> actions]]
MCTraces == {Gave([amount |-> 3, category |-> 0, date |-> 9], {"BOND"}),
             Gave([amount |-> 3, category |-> 1, date |-> 9], {"REPORT"})}
=============================================================================
