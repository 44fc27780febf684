----------------------- MODULE ExecutionBudgetProofs -----------------------
(***************************************************************************)
(* The budget of a task holds over all of its Runs, for every limit, every *)
(* size of reservation and every overrun.                                  *)
(*                                                                         *)
(* As long as the durable total is known, no Run was lost: the ledger, or  *)
(* between Runs budget_usage, has counted every call that was sent and     *)
(* charged every token that was spent.  Once it is unknown, calls may be   *)
(* uncounted, but the ledger of every later Run is full from its start and *)
(* admits nothing.                                                         *)
(***************************************************************************)
EXTENDS ExecutionBudget, TLAPS

Counted(calls, tokens) ==
    /\ sent = calls
    /\ spent + call <= tokens
    /\ tokens <= MaxTokens + MaxOverrun

KnownTotal ==
    usage.tokens # Unknown =>
      IF ledger.open
      THEN /\ Counted(ledger.calls, ledger.tokens)
           /\ usage.tokens + call <= ledger.tokens
           /\ call > 0 => ledger.tokens <= MaxTokens
           /\ \A k \in Kinds : usage.calls[k] <= ledger.calls[k]
      ELSE Counted(usage.calls, usage.tokens)

LostTotal == usage.tokens = Unknown /\ ledger.open => ledger.tokens >= MaxTokens

Closed == ~ledger.open => call = 0
LostCall == usage.tokens = Unknown => call = 0

IInv == BudgetTypeOK /\ BudgetHolds /\ KnownTotal /\ LostTotal /\ Closed /\ LostCall
-----------------------------------------------------------------------------
LEMMA InitInv == BudgetInit => IInv
  BY BudgetAssumption, SMT
  DEF BudgetInit, IInv, BudgetTypeOK, BudgetHolds, KnownTotal, LostTotal, Closed, LostCall,
      Counted, NoCalls, Usage, Ledger, Kinds

LEMMA RestoreInv == IInv /\ RestoreUsage => IInv'
  BY BudgetAssumption, SMT
  DEF RestoreUsage, IInv, BudgetTypeOK, BudgetHolds, KnownTotal, LostTotal, Closed, LostCall,
      Counted, Usage, Ledger, Kinds

\* A reservation passes only while the total is known: a lost one fills the ledger.
LEMMA KnownWhenAdmitting == IInv /\ ledger.open /\ Available => usage.tokens # Unknown
  BY BudgetAssumption, SMT
  DEF IInv, LostTotal, BudgetTypeOK, Ledger, Usage, Available

LEMMA ReserveInv == ASSUME NEW n \in Reservations, IInv, ReserveModel(n) PROVE IInv'
  <1>. USE BudgetAssumption
  <1>1. n \in Nat \ {0} /\ "model" \in Kinds
    BY DEF Kinds
  <1>2. /\ ledger.open /\ call = 0 /\ usage' = usage /\ spent' = spent /\ call' = n
        /\ ledger.calls["model"] < MaxCalls["model"] /\ ledger.tokens + n <= MaxTokens
        /\ usage.tokens # Unknown
    BY KnownWhenAdmitting DEF ReserveModel, AdmitsModel, Admits
  <1>3. ledger \in Ledger /\ usage \in Usage /\ sent \in [Kinds -> Nat] /\ spent \in Nat
    BY DEF IInv, BudgetTypeOK
  <1>4. /\ Counted(ledger.calls, ledger.tokens)
        /\ usage.tokens + call <= ledger.tokens
        /\ \A k \in Kinds : usage.calls[k] <= ledger.calls[k]
        /\ \A k \in Kinds : sent[k] <= MaxCalls[k]
    BY <1>2 DEF IInv, KnownTotal, BudgetHolds
  <1>5. /\ ledger'.open /\ ledger'.timeUp = ledger.timeUp
        /\ ledger'.calls = [ledger.calls EXCEPT !["model"] = @ + 1]
        /\ ledger'.tokens = ledger.tokens + n
        /\ ledger' \in Ledger
    <2>. DEFINE calls == [ledger.calls EXCEPT !["model"] = @ + 1]
    <2>1. ledger' = [[ledger EXCEPT !.calls = calls] EXCEPT !.tokens = ledger.tokens + n]
      BY <1>3 DEF ReserveModel, Ledger
    <2>2. calls \in [Kinds -> Nat] /\ ledger.tokens + n \in Nat
      BY <1>1, <1>3 DEF Ledger
    <2>. HIDE DEF calls
    <2>3. /\ ledger'.calls = calls /\ ledger'.tokens = ledger.tokens + n
          /\ ledger'.open = ledger.open /\ ledger'.timeUp = ledger.timeUp
          /\ ledger' \in Ledger
      BY <1>3, <2>1, <2>2 DEF Ledger
    <2>. QED BY <1>2, <2>3 DEF calls
  <1>6. sent' = [sent EXCEPT !["model"] = @ + 1] /\ sent' \in [Kinds -> Nat]
    BY <1>1, <1>3 DEF ReserveModel, Dispatched
  <1>7. sent' = ledger'.calls
    BY <1>4, <1>5, <1>6 DEF Counted
  <1>8. BudgetTypeOK'
    BY <1>1, <1>2, <1>3, <1>5, <1>6 DEF BudgetTypeOK
  <1>9. BudgetHolds'
    BY <1>1, <1>2, <1>3, <1>4, <1>6, SMT DEF BudgetHolds, Counted, Ledger
  <1>10. KnownTotal'
    <2>1. spent' + call' <= ledger'.tokens /\ ledger'.tokens <= MaxTokens + MaxOverrun
      BY <1>1, <1>2, <1>3, <1>4, <1>5, SMT DEF Counted, Ledger
    <2>2. usage'.tokens + call' <= ledger'.tokens /\ ledger'.tokens <= MaxTokens
      BY <1>1, <1>2, <1>3, <1>4, <1>5, SMT DEF Ledger, Usage
    <2>3. \A k \in Kinds : usage'.calls[k] <= ledger'.calls[k]
      BY <1>1, <1>2, <1>3, <1>4, <1>5, SMT DEF Ledger, Usage
    <2>. QED BY <1>5, <1>7, <2>1, <2>2, <2>3 DEF KnownTotal, Counted
  <1>. QED BY <1>2, <1>5, <1>8, <1>9, <1>10 DEF IInv, LostTotal, Closed, LostCall

LEMMA ChargeInv ==
  ASSUME NEW used \in Nat, used <= call + MaxOverrun, IInv, Charge(used) PROVE IInv'
  BY BudgetAssumption, SMT
  DEF Charge, IInv, BudgetTypeOK, BudgetHolds, KnownTotal, LostTotal, Closed, LostCall, Counted,
      Usage, Ledger, Kinds

LEMMA ConsumeInv ==
  ASSUME NEW kind \in {"retrieval", "tool"}, IInv, Consume(kind) PROVE IInv'
  <1>. USE BudgetAssumption
  <1>1. kind \in Kinds
    BY DEF Kinds
  <1>2. /\ ledger.open /\ call = 0 /\ UNCHANGED <<usage, call, spent>>
        /\ ledger.calls[kind] < MaxCalls[kind]
        /\ usage.tokens # Unknown
    BY KnownWhenAdmitting DEF Consume, Admits
  <1>3. ledger \in Ledger /\ usage \in Usage /\ sent \in [Kinds -> Nat] /\ spent \in Nat
    BY DEF IInv, BudgetTypeOK
  <1>4. /\ Counted(ledger.calls, ledger.tokens)
        /\ usage.tokens + call <= ledger.tokens
        /\ \A k \in Kinds : usage.calls[k] <= ledger.calls[k]
        /\ \A k \in Kinds : sent[k] <= MaxCalls[k]
        /\ spent <= MaxTokens + MaxOverrun
    BY <1>2 DEF IInv, KnownTotal, BudgetHolds
  <1>5. /\ ledger'.open /\ ledger'.timeUp = ledger.timeUp
        /\ ledger'.calls = [ledger.calls EXCEPT ![kind] = @ + 1]
        /\ ledger'.tokens = ledger.tokens
        /\ ledger' \in Ledger
    BY <1>1, <1>2, <1>3, SMT DEF Consume, Ledger
  <1>6. sent' = [sent EXCEPT ![kind] = @ + 1] /\ sent' \in [Kinds -> Nat]
    BY <1>1, <1>3 DEF Consume, Dispatched
  <1>7. sent' = ledger'.calls
    BY <1>4, <1>5, <1>6 DEF Counted
  <1>8. BudgetTypeOK'
    BY <1>2, <1>3, <1>5, <1>6 DEF BudgetTypeOK, IInv
  <1>9. BudgetHolds'
    BY <1>1, <1>2, <1>3, <1>4, <1>6, SMT DEF BudgetHolds, Counted, Ledger
  <1>10. KnownTotal'
    <2>1. \A k \in Kinds : usage'.calls[k] <= ledger'.calls[k]
      BY <1>1, <1>2, <1>3, <1>4, <1>5, SMT DEF Ledger, Usage
    <2>. QED BY <1>2, <1>4, <1>5, <1>7, <2>1 DEF KnownTotal, Counted
  <1>. QED BY <1>2, <1>5, <1>8, <1>9, <1>10 DEF IInv, LostTotal, Closed, LostCall

\* A Run adds what it used to a total it only ever started from.
LEMMA SettleInv == IInv /\ Settle => IInv'
  <1>. SUFFICES ASSUME IInv, Settle PROVE IInv'
    OBVIOUS
  <1>. USE BudgetAssumption
  <1>1. /\ ledger.open /\ call = 0 /\ UNCHANGED <<call, sent, spent>>
        /\ usage'.calls = [k \in Kinds |-> Plus(usage.calls[k], ledger.calls[k])]
        /\ usage'.tokens = IF usage.tokens = Unknown THEN Unknown
                           ELSE Plus(usage.tokens, ledger.tokens)
        /\ usage'.timeUp = ledger.timeUp
    BY DEF Settle
  <1>2. ledger \in Ledger /\ usage \in Usage /\ sent \in [Kinds -> Nat] /\ spent \in Nat
    BY DEF IInv, BudgetTypeOK
  <1>3. ~ledger'.open /\ ledger' \in Ledger
    BY <1>2 DEF Settle, Ledger
  <1>4. \A a, b \in Nat : Plus(a, b) \in Nat /\ (a <= b => Plus(a, b) = b)
    BY SMT DEF Plus
  <1>5. usage'.calls \in [Kinds -> Nat]
    BY <1>1, <1>2, <1>4 DEF Ledger, Usage
  <1>6. usage'.tokens \in Nat \cup {Unknown}
    BY <1>1, <1>2, <1>4 DEF Ledger, Usage
  <1>7. usage' \in Usage
    BY <1>1, <1>2, <1>5, <1>6 DEF Settle, Usage, Ledger
  <1>8. BudgetTypeOK' /\ BudgetHolds'
    BY <1>1, <1>2, <1>3, <1>7 DEF IInv, BudgetTypeOK, BudgetHolds
  <1>9. ASSUME usage.tokens # Unknown
        PROVE  Counted(usage.calls, usage.tokens)'
    <2>1. /\ Counted(ledger.calls, ledger.tokens)
          /\ usage.tokens <= ledger.tokens
          /\ \A k \in Kinds : usage.calls[k] <= ledger.calls[k]
      BY <1>1, <1>2, <1>9 DEF IInv, KnownTotal, Usage, Ledger
    <2>2. usage'.tokens = ledger.tokens
      BY <1>1, <1>2, <1>4, <1>9, <2>1 DEF Usage, Ledger
    <2>3. usage'.calls = ledger.calls
      BY <1>1, <1>2, <1>4, <2>1 DEF Usage, Ledger
    <2>. QED BY <1>1, <2>1, <2>2, <2>3 DEF Counted
  <1>10. KnownTotal'
    BY <1>1, <1>3, <1>9 DEF KnownTotal, Counted
  <1>. QED BY <1>1, <1>3, <1>8, <1>10 DEF IInv, LostTotal, Closed, LostCall

\* The tokens of the call that was under way fit below the limit by themselves.
LEMMA LoseInv == IInv /\ Lose => IInv'
  <1>. SUFFICES ASSUME IInv, Lose PROVE IInv'
    OBVIOUS
  <1>. USE BudgetAssumption
  <1>1. /\ ledger.open /\ call' = 0 /\ spent' = spent + call /\ sent' = sent
    BY DEF Lose
  <1>2. ledger \in Ledger /\ usage \in Usage /\ sent \in [Kinds -> Nat] /\ spent \in Nat /\ call \in Nat
    BY DEF IInv, BudgetTypeOK
  <1>3. usage' = [usage EXCEPT !.tokens = Unknown] /\ usage' \in Usage /\ usage'.tokens = Unknown
    BY <1>2 DEF Lose, Usage
  <1>4. ledger' \in Ledger /\ ~ledger'.open
    BY <1>2 DEF Lose, Ledger
  <1>5. spent + call <= MaxTokens + MaxOverrun
    <2>1. CASE usage.tokens = Unknown
      BY <1>2, <2>1 DEF IInv, LostCall, BudgetHolds
    <2>2. CASE usage.tokens # Unknown
      BY <1>1, <1>2, <2>2 DEF IInv, KnownTotal, Counted, Ledger
    <2>. QED BY <2>1, <2>2
  <1>6. BudgetTypeOK' /\ BudgetHolds'
    BY <1>1, <1>2, <1>3, <1>4, <1>5 DEF IInv, BudgetTypeOK, BudgetHolds
  <1>. QED BY <1>1, <1>3, <1>4, <1>6 DEF IInv, KnownTotal, LostTotal, Closed, LostCall

LEMMA NextInv == IInv /\ [BudgetNext]_budgetVars => IInv'
  <1>. SUFFICES ASSUME IInv, [BudgetNext]_budgetVars PROVE IInv'
    OBVIOUS
  <1>0. call \in Nat
    BY DEF IInv, BudgetTypeOK
  <1>1. CASE RestoreUsage
    BY <1>1, RestoreInv
  <1>2. ASSUME NEW n \in Reservations, ReserveModel(n) PROVE IInv'
    BY <1>2, ReserveInv
  <1>3. CASE CompleteReported
    <2>1. PICK used \in 1 .. call + MaxOverrun : Charge(used)
      BY <1>3 DEF CompleteReported
    <2>. QED BY <1>0, <2>1, ChargeInv, BudgetAssumption
  <1>4. CASE CompleteUnknown
    <2>1. call <= call + MaxOverrun
      BY <1>0, BudgetAssumption
    <2>. QED BY <1>0, <1>4, <2>1, ChargeInv DEF CompleteUnknown
  <1>5. ASSUME NEW kind \in {"retrieval", "tool"}, Consume(kind) PROVE IInv'
    BY <1>5, ConsumeInv
  <1>6. CASE TimeRunsOut
    <2>1. /\ UNCHANGED <<usage, call, sent, spent>>
          /\ ledger' = [ledger EXCEPT !.timeUp = TRUE] /\ ledger \in Ledger
      BY <1>6 DEF TimeRunsOut, IInv, BudgetTypeOK
    <2>2. /\ ledger' \in Ledger /\ ledger'.calls = ledger.calls
          /\ ledger'.tokens = ledger.tokens /\ ledger'.open = ledger.open
      BY <2>1 DEF Ledger
    <2>. QED BY <2>1, <2>2
         DEF IInv, BudgetTypeOK, BudgetHolds, KnownTotal, LostTotal, Closed, LostCall, Counted
  <1>7. CASE Settle
    BY <1>7, SettleInv
  <1>8. CASE Lose
    BY <1>8, LoseInv
  <1>9. CASE UNCHANGED budgetVars
    BY <1>9
    DEF budgetVars, IInv, BudgetTypeOK, BudgetHolds, KnownTotal, LostTotal, Closed, LostCall, Counted
  <1>. QED BY <1>1, <1>2, <1>3, <1>4, <1>5, <1>6, <1>7, <1>8, <1>9 DEF BudgetNext

\* However many Runs a task takes and wherever they are lost, the calls it sends and
\* the tokens they cost stay within its budget.
THEOREM TaskBudgetHolds == BudgetSpec => []BudgetHolds
  <1>1. IInv => BudgetHolds
    BY DEF IInv
  <1>. QED BY InitInv, NextInv, <1>1, PTL DEF BudgetSpec
=============================================================================
