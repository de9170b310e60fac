------------------------- MODULE OrderPaymentProofs -------------------------
(***************************************************************************)
(* Theorems about OrderPayment, for any sets of orders and requests and     *)
(* any number of tickets per order.                                         *)
(***************************************************************************)
EXTENDS OrderPayment, TLAPS

USE DEF payVars, storeVars, orderVars, txnVars, ticketVars, moneyVars,
        frameVars, localVars, Goto, Answer

(***************************************************************************)
(* Types.  A ticket loop stores at least one ticket, so counting down what  *)
(* is left stays within Nat: that part needs the other invariants.          *)
(***************************************************************************)
LEMMA InitType == PayInit => PayTypeOK
<1> SUFFICES ASSUME PayInit PROVE PayTypeOK
  OBVIOUS
<1> QED
  BY UnitsAssumption DEF PayInit, StoreInit, PayTypeOK, DataTypeOK,
     OrderStatus, Labels

\* Every action keeps the documents typed,
LEMMA NextData ==
  ASSUME NEW L, Labels \subseteq L, DataTypeOK(L), FrameInv, TicketInv,
         [PayNext]_payVars
  PROVE  DataTypeOK(L)'
<1> USE DEF DataTypeOK, Labels, Final, OrderStatus, PaymentStatus
<1>1. ASSUME NEW r \in Requests, PayRead(r) PROVE DataTypeOK(L)'
  BY <1>1 DEF PayRead
<1>2. ASSUME NEW r \in Requests, ConfirmRead(r) PROVE DataTypeOK(L)'
  BY <1>2 DEF ConfirmRead
<1>3. ASSUME NEW r \in Requests, CancelRead(r) PROVE DataTypeOK(L)'
  BY <1>3 DEF CancelRead
<1>4. ASSUME NEW r \in Requests, RefundRead(r) PROVE DataTypeOK(L)'
  BY <1>4 DEF RefundRead, Full
<1>5. ASSUME NEW r \in Requests, HookRead(r) PROVE DataTypeOK(L)'
  BY <1>5 DEF HookRead
<1>6. ASSUME NEW r \in Requests, ReadTxnNumber(r) PROVE DataTypeOK(L)'
  BY <1>6 DEF ReadTxnNumber
<1>7. ASSUME NEW r \in Requests, InsertTxn(r) PROVE DataTypeOK(L)'
  BY <1>7 DEF InsertTxn, StoreTxn
<1>8. ASSUME NEW r \in Requests, TxnClash(r) PROVE DataTypeOK(L)'
  BY <1>8 DEF TxnClash
<1>9. ASSUME NEW r \in Requests, Charge(r) PROVE DataTypeOK(L)'
  BY <1>9 DEF Charge
<1>10. ASSUME NEW r \in Requests, SettleApproved(r) PROVE DataTypeOK(L)'
  BY <1>10 DEF SettleApproved, SettledStatus
<1>11. ASSUME NEW r \in Requests, SettleDeclined(r) PROVE DataTypeOK(L)'
  BY <1>11 DEF SettleDeclined, SettledStatus
<1>12. ASSUME NEW r \in Requests, MarkPaid(r) PROVE DataTypeOK(L)'
  BY <1>12 DEF MarkPaid, WriteStatus, FrameInv, OrderStages, PaidStages
<1>13. ASSUME NEW r \in Requests, IssueTickets(r) PROVE DataTypeOK(L)'
  <2>1. CASE ReadTicketNumber(r)
    BY <1>13, <2>1 DEF IssueTickets, ReadTicketNumber
  <2>2. CASE SaveTicket(r, "ok")
    <3>1. left[r] \in Nat /\ left[r] > 0 /\ ord[r] \in Orders /\ num[r] \in Nat
      BY <1>13, <2>2 DEF IssueTickets, SaveTicket, TicketInv, TicketStages,
         FrameInv, OrderStages, PaidStages
    <3>2. left' \in [Requests -> Nat] /\ lastTicket' \in Nat
      BY <2>2, <3>1 DEF SaveTicket, StoreTicket
    <3>3. active' \in [Orders -> Nat]
      BY <2>2, <3>1 DEF SaveTicket, StoreTicket
    <3>4. issued' \in [Requests -> [Orders -> Nat]]
      BY <2>2, <3>1 DEF SaveTicket, StoreTicket
    <3>5. pc' \in [Requests -> L]
      BY <2>2 DEF SaveTicket
    <3> QED
      BY <1>13, <2>2, <3>2, <3>3, <3>4, <3>5 DEF IssueTickets, SaveTicket
  <2>3. CASE TicketClash(r, "recordFailure")
    BY <1>13, <2>3 DEF IssueTickets, TicketClash
  <2> QED
    BY <1>13, <2>1, <2>2, <2>3 DEF IssueTickets
<1>14. ASSUME NEW r \in Requests, RecordFailure(r) PROVE DataTypeOK(L)'
  BY <1>14 DEF RecordFailure, MarkFailed
<1>15. ASSUME NEW r \in Requests, ExpireRead(r) PROVE DataTypeOK(L)'
  BY <1>15 DEF ExpireRead
<1>16. ASSUME NEW r \in Requests, ExpireSave(r) PROVE DataTypeOK(L)'
  BY <1>16 DEF ExpireSave, WriteStatus
<1>17. ASSUME NEW r \in Requests, ConfirmSave(r) PROVE DataTypeOK(L)'
  BY <1>17 DEF ConfirmSave, WriteStatus
<1>18. ASSUME NEW r \in Requests, CancelSave(r) PROVE DataTypeOK(L)'
  BY <1>18 DEF CancelSave, WriteStatus
<1>19. ASSUME NEW r \in Requests, RefundCall(r) PROVE DataTypeOK(L)'
  <2>1. tgt[r] \in Requests /\ left[r] \in Nat
        /\ refunds[tgt[r]] \in Nat /\ refunds[tgt[r]] + left[r] \in Nat
    BY <1>19
  <2>2. refunds' \in [Requests -> Nat]
    BY <1>19, <2>1 DEF RefundCall
  <2>3. pc' \in [Requests -> L]
    BY <1>19 DEF RefundCall, AfterRefund
  <2> QED
    BY <1>19, <2>2, <2>3 DEF RefundCall
<1>20. ASSUME NEW r \in Requests, RefundSave(r) PROVE DataTypeOK(L)'
  BY <1>20 DEF RefundSave, RefundStatus
<1>21. ASSUME NEW r \in Requests, HookSave(r) PROVE DataTypeOK(L)'
  BY <1>21 DEF HookSave
<1>22. ASSUME NEW o \in Orders, TimePasses(o) PROVE DataTypeOK(L)'
  BY <1>22 DEF TimePasses
<1>23. ASSUME NEW t \in Requests, ProviderRefund(t) PROVE DataTypeOK(L)'
  BY <1>23 DEF ProviderRefund, Full
<1>24. CASE Crash /\ UNCHANGED overdue
  BY <1>24 DEF Crash, InFlight
<1>25. CASE UNCHANGED payVars
  BY <1>25
<1>26. ASSUME NEW r \in Requests, SettleFails(r) PROVE DataTypeOK(L)'
  BY <1>26 DEF SettleFails
<1>27. ASSUME NEW r \in Requests, CallFails(r) PROVE DataTypeOK(L)'
  BY <1>27 DEF CallFails
<1> QED
  BY <1>26, <1>27, <1>1, <1>2, <1>3, <1>4, <1>5, <1>6, <1>7, <1>8, <1>9, <1>10,
     <1>11, <1>12, <1>13, <1>14, <1>15, <1>16, <1>17, <1>18, <1>19, <1>20,
     <1>21, <1>22, <1>23, <1>24, <1>25
  DEF PayNext, PayEvents, Begin, Step, Fails, Quiet

\* and so every step keeps the types.
LEMMA NextType ==
  ASSUME PayTypeOK, FrameInv, TicketInv, [PayNext]_payVars
  PROVE  PayTypeOK'
BY NextData DEF PayTypeOK

(***************************************************************************)
(* The inductive step, conjunct by conjunct.  An order that exists has      *)
(* tickets to give out, and stays; a request past its first step keeps the  *)
(* order it works on.                                                       *)
(***************************************************************************)
LEMMA NextFrame ==
  ASSUME NEW L, DataTypeOK(L), FrameInv, [PayNext]_payVars
  PROVE  FrameInv'
<1> USE DEF DataTypeOK, FrameInv, OrderStages, PaidStages, TicketStages,
            OtherStages, Final, OrderStatus
<1>1. ASSUME NEW r \in Requests, PayRead(r) PROVE FrameInv'
  BY <1>1 DEF PayRead
<1>2. ASSUME NEW r \in Requests, ConfirmRead(r) PROVE FrameInv'
  BY <1>2 DEF ConfirmRead
<1>3. ASSUME NEW r \in Requests, CancelRead(r) PROVE FrameInv'
  BY <1>3 DEF CancelRead
<1>4. ASSUME NEW r \in Requests, RefundRead(r) PROVE FrameInv'
  BY <1>4 DEF RefundRead
<1>5. ASSUME NEW r \in Requests, HookRead(r) PROVE FrameInv'
  BY <1>5 DEF HookRead
<1>6. ASSUME NEW r \in Requests, MarkPaid(r) PROVE FrameInv'
  BY <1>6 DEF MarkPaid, WriteStatus
<1>7. ASSUME NEW r \in Requests, ExpireSave(r) PROVE FrameInv'
  BY <1>7 DEF ExpireSave, WriteStatus
<1>8. ASSUME NEW r \in Requests, ConfirmSave(r) PROVE FrameInv'
  BY <1>8 DEF ConfirmSave, WriteStatus
<1>9. ASSUME NEW r \in Requests, CancelSave(r) PROVE FrameInv'
  BY <1>9 DEF CancelSave, WriteStatus
<1>10. ASSUME NEW r \in Requests,
             \/ ReadTxnNumber(r) \/ InsertTxn(r) \/ TxnClash(r)
             \/ Charge(r) \/ SettleApproved(r) \/ SettleDeclined(r)
             \/ SettleFails(r) \/ IssueTickets(r) \/ RecordFailure(r)
             \/ ExpireRead(r) \/ RefundCall(r) \/ RefundSave(r)
             \/ HookSave(r) \/ CallFails(r)
      PROVE FrameInv'
  BY <1>10 DEF ReadTxnNumber, InsertTxn, StoreTxn, TxnClash, Charge,
         SettleApproved, SettledStatus, SettleDeclined, SettledStatus,
         SettleFails, IssueTickets, ReadTicketNumber, SaveTicket,
         StoreTicket, LastUnit, TicketClash, RecordFailure, MarkFailed,
         ExpireRead, RefundCall, AfterRefund, Reported, RefundSave,
         RefundStatus, HookSave, CallFails
<1>11. ASSUME NEW o \in Orders, TimePasses(o) PROVE FrameInv'
  BY <1>11 DEF TimePasses
<1>12. ASSUME NEW t \in Requests, ProviderRefund(t) PROVE FrameInv'
  BY <1>12 DEF ProviderRefund
<1>13. CASE Crash /\ UNCHANGED overdue
  BY <1>13 DEF Crash, InFlight
<1>14. CASE UNCHANGED payVars
  BY <1>14
<1> QED
  BY <1>1, <1>2, <1>3, <1>4, <1>5, <1>6, <1>7, <1>8, <1>9, <1>10, <1>11,
     <1>12, <1>13, <1>14
     DEF PayNext, PayEvents, Begin, Step, Fails, Quiet

(***************************************************************************)
(* The transaction and the charge follow the request.  Only a refund writes *)
(* another request's transaction, and by RefundInv its charge is recorded   *)
(* then, so it is past its settlement.                                      *)
(***************************************************************************)
LEMMA NextStage ==
  ASSUME NEW L, DataTypeOK(L), FrameInv, RefundInv, StageInv, [PayNext]_payVars
  PROVE  StageInv'
<1> USE DEF DataTypeOK, StageInv, FrameInv, RefundInv, NoTxnStages,
            PaidStages, TicketStages, OtherStages, Final, PaymentStatus
<1>1. ASSUME NEW r \in Requests, PayRead(r) PROVE StageInv'
  BY <1>1 DEF PayRead
<1>2. ASSUME NEW r \in Requests, ConfirmRead(r) PROVE StageInv'
  BY <1>2 DEF ConfirmRead
<1>3. ASSUME NEW r \in Requests, CancelRead(r) PROVE StageInv'
  BY <1>3 DEF CancelRead
<1>4. ASSUME NEW r \in Requests, RefundRead(r) PROVE StageInv'
  BY <1>4 DEF RefundRead
<1>5. ASSUME NEW r \in Requests, HookRead(r) PROVE StageInv'
  BY <1>5 DEF HookRead
<1>6. ASSUME NEW r \in Requests, InsertTxn(r) PROVE StageInv'
  BY <1>6 DEF InsertTxn, StoreTxn
<1>7. ASSUME NEW r \in Requests, Charge(r) PROVE StageInv'
  BY <1>7 DEF Charge, Reported
<1>8. ASSUME NEW r \in Requests, SettleApproved(r) PROVE StageInv'
  BY <1>8 DEF SettleApproved, SettledStatus
<1>9. ASSUME NEW r \in Requests, SettleDeclined(r) PROVE StageInv'
  BY <1>9 DEF SettleDeclined, SettledStatus
<1>10. ASSUME NEW r \in Requests, SettleFails(r) PROVE StageInv'
  BY <1>10 DEF SettleFails
<1>11. ASSUME NEW r \in Requests, MarkPaid(r) PROVE StageInv'
  BY <1>11 DEF MarkPaid, WriteStatus
<1>12. ASSUME NEW r \in Requests, IssueTickets(r) PROVE StageInv'
  BY <1>12 DEF IssueTickets, ReadTicketNumber, SaveTicket, StoreTicket,
         LastUnit, TicketClash
<1>13. ASSUME NEW r \in Requests, RecordFailure(r) PROVE StageInv'
  BY <1>13 DEF RecordFailure, MarkFailed
<1>14. ASSUME NEW r \in Requests, RefundSave(r) PROVE StageInv'
  BY <1>14 DEF RefundSave, RefundStatus
<1>15. ASSUME NEW r \in Requests, HookSave(r) PROVE StageInv'
  BY <1>15 DEF HookSave
<1>16. ASSUME NEW r \in Requests, CallFails(r) PROVE StageInv'
  BY <1>16 DEF CallFails
<1>17. ASSUME NEW r \in Requests,
             \/ ReadTxnNumber(r) \/ TxnClash(r) \/ ExpireRead(r)
             \/ ExpireSave(r) \/ ConfirmSave(r) \/ CancelSave(r)
             \/ RefundCall(r)
      PROVE StageInv'
  BY <1>17 DEF ReadTxnNumber, TxnClash, ExpireRead, ExpireSave, WriteStatus,
         ConfirmSave, WriteStatus, CancelSave, WriteStatus, RefundCall,
         AfterRefund, Reported
<1>18. ASSUME NEW o \in Orders, TimePasses(o) PROVE StageInv'
  BY <1>18 DEF TimePasses
<1>19. ASSUME NEW t \in Requests, ProviderRefund(t) PROVE StageInv'
  BY <1>19 DEF ProviderRefund
<1>20. CASE Crash /\ UNCHANGED overdue
  BY <1>20 DEF Crash, InFlight
<1>21. CASE UNCHANGED payVars
  BY <1>21
<1> QED
  BY <1>1, <1>2, <1>3, <1>4, <1>5, <1>6, <1>7, <1>8, <1>9, <1>10, <1>11,
     <1>12, <1>13, <1>14, <1>15, <1>16, <1>17, <1>18, <1>19, <1>20, <1>21
     DEF PayNext, PayEvents, Begin, Step, Fails, Quiet

\* A transaction is stored before the charge, and stays.
LEMMA NextRecorded ==
  ASSUME NEW L, DataTypeOK(L), StageInv, RefundInv, ChargesAreRecorded, [PayNext]_payVars
  PROVE  ChargesAreRecorded'
<1> USE DEF DataTypeOK, ChargesAreRecorded, StageInv, RefundInv, NoTxnStages,
            PaidStages, TicketStages, OtherStages, PaymentStatus
<1>1. ASSUME NEW r \in Requests, Begin(r) PROVE ChargesAreRecorded'
  BY <1>1 DEF Begin, PayRead, ConfirmRead, CancelRead, RefundRead, HookRead
<1>2. ASSUME NEW r \in Requests, Charge(r) PROVE ChargesAreRecorded'
  BY <1>2 DEF Charge
<1>3. ASSUME NEW r \in Requests, InsertTxn(r) \/ RecordFailure(r) PROVE ChargesAreRecorded'
  BY <1>3 DEF InsertTxn, StoreTxn, RecordFailure, MarkFailed
<1>4. ASSUME NEW r \in Requests, SettleApproved(r) \/ SettleDeclined(r) \/ SettleFails(r)
      PROVE ChargesAreRecorded'
  BY <1>4 DEF SettleApproved, SettleDeclined, SettleFails, SettledStatus
<1>5. ASSUME NEW r \in Requests, RefundSave(r) \/ HookSave(r) PROVE ChargesAreRecorded'
  BY <1>5 DEF RefundSave, RefundStatus, HookSave
<1>6. ASSUME NEW r \in Requests,
             \/ ReadTxnNumber(r) \/ TxnClash(r) \/ MarkPaid(r) \/ IssueTickets(r)
             \/ ExpireRead(r) \/ ExpireSave(r) \/ ConfirmSave(r) \/ CancelSave(r)
             \/ RefundCall(r) \/ CallFails(r)
      PROVE UNCHANGED <<captured, txnStatus>>
  BY <1>6 DEF ReadTxnNumber, TxnClash, MarkPaid, IssueTickets, ReadTicketNumber,
     SaveTicket, StoreTicket, TicketClash, ExpireRead, ExpireSave, ConfirmSave,
     CancelSave, RefundCall, CallFails
<1>7. CASE (\E o \in Orders : TimePasses(o)) \/ (\E t \in Requests : ProviderRefund(t))
             \/ (Crash /\ UNCHANGED overdue) \/ UNCHANGED payVars
  BY <1>7 DEF TimePasses, ProviderRefund, Crash
<1> QED
  BY <1>1, <1>2, <1>3, <1>4, <1>5, <1>6, <1>7
     DEF PayNext, PayEvents, Begin, Step, Fails, Quiet

\* An event that was posted stays so.
LEMMA AnnouncedKept ==
  ASSUME NEW L, DataTypeOK(L), [PayNext]_payVars, NEW t \in Requests, Announced(t)
  PROVE  Announced(t)'
<1>1. PICK h \in Requests : Kind[h] = "refundHook" /\ pc[h] # "idle" /\ tgt[h] = t
  BY DEF Announced
<1> SUFFICES pc'[h] # "idle" /\ tgt'[h] = t
  BY <1>1 DEF Announced
<1> USE DEF DataTypeOK
<1>2. ASSUME NEW r \in Requests, Begin(r) PROVE pc'[h] # "idle" /\ tgt'[h] = t
  BY <1>1, <1>2 DEF Begin, PayRead, ConfirmRead, CancelRead, RefundRead, HookRead
<1>3. ASSUME NEW r \in Requests, Step(r) \/ Fails(r)
      PROVE pc'[h] # "idle" /\ tgt'[h] = t
  BY <1>1, <1>3 DEF Step, Fails, ReadTxnNumber, InsertTxn, TxnClash, Charge,
     SettleApproved, SettleDeclined, SettleFails, MarkPaid, IssueTickets,
     ReadTicketNumber, SaveTicket, TicketClash, RecordFailure, ExpireRead,
     ExpireSave, ConfirmSave, CancelSave, RefundCall, AfterRefund, RefundSave,
     HookSave, CallFails
<1> QED
  BY <1>1, <1>2, <1>3 DEF PayNext, PayEvents, Quiet, TimePasses, ProviderRefund,
     Crash, InFlight, Final

\* A refund is recorded after the provider reported it, or announced it.
LEMMA NextRefund ==
  ASSUME NEW L, DataTypeOK(L), RefundInv, StageInv, [PayNext]_payVars
  PROVE  RefundInv'
<1> USE DEF DataTypeOK, RefundInv, StageInv, Final, PaymentStatus, Full,
            NoTxnStages, PaidStages,OtherStages, TicketStages
<1>0. \A t \in Requests : Announced(t) => Announced(t)'
  BY AnnouncedKept
<1>1. ASSUME NEW r \in Requests, PayRead(r) PROVE RefundInv'
  BY <1>0, <1>1 DEF PayRead
<1>2. ASSUME NEW r \in Requests, ConfirmRead(r) PROVE RefundInv'
  BY <1>0, <1>2 DEF ConfirmRead
<1>3. ASSUME NEW r \in Requests, CancelRead(r) PROVE RefundInv'
  BY <1>0, <1>3 DEF CancelRead
<1>4. ASSUME NEW r \in Requests, RefundRead(r) PROVE RefundInv'
  BY <1>0, <1>4 DEF RefundRead, Refundable
<1>5. ASSUME NEW r \in Requests, HookRead(r) PROVE RefundInv'
  BY <1>0, <1>5 DEF HookRead
<1>6. ASSUME NEW r \in Requests, InsertTxn(r) PROVE RefundInv'
  BY <1>0, <1>6 DEF InsertTxn, StoreTxn
<1>7. ASSUME NEW r \in Requests, SettleApproved(r) PROVE RefundInv'
  BY <1>0, <1>7 DEF SettleApproved, SettledStatus
<1>8. ASSUME NEW r \in Requests, SettleDeclined(r) PROVE RefundInv'
  BY <1>0, <1>8 DEF SettleDeclined, SettledStatus
<1>9. ASSUME NEW r \in Requests, SettleFails(r) PROVE RefundInv'
  BY <1>0, <1>9 DEF SettleFails
<1>10. ASSUME NEW r \in Requests, RecordFailure(r) PROVE RefundInv'
  BY <1>0, <1>10 DEF RecordFailure, MarkFailed
<1>11. ASSUME NEW r \in Requests, RefundCall(r) PROVE RefundInv'
  BY <1>0, <1>11 DEF RefundCall, AfterRefund, Reported
<1>12. ASSUME NEW r \in Requests, RefundSave(r) PROVE RefundInv'
  BY <1>0, <1>12 DEF RefundSave, RefundStatus
<1>13. ASSUME NEW r \in Requests, HookSave(r) PROVE RefundInv'
  BY <1>0, <1>13 DEF HookSave, Announced
<1>14. ASSUME NEW r \in Requests,
             \/ ReadTxnNumber(r) \/ TxnClash(r) \/ Charge(r)
             \/ MarkPaid(r) \/ IssueTickets(r) \/ ExpireRead(r)
             \/ ExpireSave(r) \/ ConfirmSave(r) \/ CancelSave(r)
             \/ CallFails(r)
      PROVE RefundInv'
  BY <1>0, <1>14 DEF ReadTxnNumber, TxnClash, Charge, MarkPaid, WriteStatus,
         IssueTickets, ReadTicketNumber, SaveTicket, StoreTicket, LastUnit,
         TicketClash, ExpireRead, ExpireSave, WriteStatus, ConfirmSave,
         WriteStatus, CancelSave, WriteStatus, CallFails
<1>15. ASSUME NEW o \in Orders, TimePasses(o) PROVE RefundInv'
  BY <1>0, <1>15 DEF TimePasses
<1>16. ASSUME NEW t \in Requests, ProviderRefund(t) PROVE RefundInv'
  BY <1>0, <1>16 DEF ProviderRefund
<1>17. CASE Crash /\ UNCHANGED overdue
  BY <1>0, <1>17 DEF Crash, InFlight
<1>18. CASE UNCHANGED payVars
  BY <1>0, <1>18
<1> QED
  BY <1>1, <1>2, <1>3, <1>4, <1>5, <1>6, <1>7, <1>8, <1>9, <1>10, <1>11,
     <1>12, <1>13, <1>14, <1>15, <1>16, <1>17, <1>18
     DEF PayNext, PayEvents, Begin, Step, Fails, Quiet

\* The loop over the units of an order counts what it stores.
LEMMA NextTicket ==
  ASSUME NEW L, DataTypeOK(L), FrameInv, TicketInv, [PayNext]_payVars
  PROVE  TicketInv'
<1> USE DEF DataTypeOK, TicketInv, FrameInv, NoTxnStages, TicketStages,
            PaidStages, OrderStages, OtherStages, Final
<1>1. ASSUME NEW r \in Requests, PayRead(r) PROVE TicketInv'
  BY <1>1 DEF PayRead
<1>2. ASSUME NEW r \in Requests, ConfirmRead(r) PROVE TicketInv'
  BY <1>2 DEF ConfirmRead
<1>3. ASSUME NEW r \in Requests, CancelRead(r) PROVE TicketInv'
  BY <1>3 DEF CancelRead
<1>4. ASSUME NEW r \in Requests, RefundRead(r) PROVE TicketInv'
  BY <1>4 DEF RefundRead
<1>5. ASSUME NEW r \in Requests, HookRead(r) PROVE TicketInv'
  BY <1>5 DEF HookRead
<1>6. ASSUME NEW r \in Requests, MarkPaid(r) PROVE TicketInv'
  BY <1>6 DEF MarkPaid, WriteStatus
<1>7. ASSUME NEW r \in Requests, IssueTickets(r) PROVE TicketInv'
  BY <1>7 DEF IssueTickets, ReadTicketNumber, SaveTicket, StoreTicket,
         LastUnit, TicketClash
<1>8. ASSUME NEW r \in Requests, CallFails(r) PROVE TicketInv'
  <2>1. UNCHANGED <<ord, left, issued, units>>
    BY <1>8 DEF CallFails
  <2>2. \A q \in Requests : q # r => pc'[q] = pc[q]
    BY <1>8 DEF CallFails
  <2>3. pc'[r] \in {"error", "recordFailure", "unrecorded"}
    BY <1>8 DEF CallFails
  <2> QED
    BY <2>1, <2>2, <2>3
<1>9. ASSUME NEW r \in Requests,
             \/ ReadTxnNumber(r) \/ InsertTxn(r) \/ TxnClash(r)
             \/ Charge(r) \/ SettleApproved(r) \/ SettleDeclined(r)
             \/ SettleFails(r) \/ RecordFailure(r) \/ ExpireRead(r)
             \/ ExpireSave(r) \/ ConfirmSave(r) \/ CancelSave(r)
             \/ RefundCall(r) \/ RefundSave(r) \/ HookSave(r)
      PROVE TicketInv'
  <2>1. UNCHANGED <<ord, left, issued, units>>
    BY <1>9 DEF ReadTxnNumber, InsertTxn, StoreTxn, TxnClash, Charge,
       SettleApproved, SettleDeclined, SettleFails, RecordFailure, ExpireRead,
       ExpireSave, ConfirmSave, CancelSave, RefundCall, AfterRefund,
       RefundSave, HookSave
  <2>2. \A q \in Requests : q # r => pc'[q] = pc[q]
    BY <1>9 DEF ReadTxnNumber, InsertTxn, StoreTxn, TxnClash, Charge,
       SettleApproved, SettleDeclined, SettleFails, RecordFailure, ExpireRead,
       ExpireSave, ConfirmSave, CancelSave, RefundCall, AfterRefund,
       RefundSave, HookSave
  <2>3. pc'[r] \notin TicketStages /\ pc[r] # "idle"
    BY <1>9 DEF ReadTxnNumber, InsertTxn, StoreTxn, TxnClash, Charge,
       SettleApproved, SettleDeclined, SettleFails, RecordFailure, ExpireRead,
       ExpireSave, ConfirmSave, CancelSave, RefundCall, AfterRefund,
       RefundSave, HookSave
  <2>4. pc[r] \in NoTxnStages \cup {"charge", "settleApproved", "settleDeclined"}
          \/ pc'[r] = "error"
    BY <1>9 DEF ReadTxnNumber, InsertTxn, TxnClash, Charge, SettleApproved,
       SettleDeclined, SettleFails, RecordFailure, ExpireRead, ExpireSave,
       ConfirmSave, CancelSave, RefundCall, RefundSave, HookSave
  <2>5. \A o \in Orders : pc'[r] # "error" => issued[r][o] = 0
    BY <2>4
  <2> QED
    BY <2>1, <2>2, <2>3, <2>5
<1>10. ASSUME NEW o \in Orders, TimePasses(o) PROVE TicketInv'
  BY <1>10 DEF TimePasses
<1>11. ASSUME NEW t \in Requests, ProviderRefund(t) PROVE TicketInv'
  BY <1>11 DEF ProviderRefund
<1>12. CASE Crash /\ UNCHANGED overdue
  BY <1>12 DEF Crash, InFlight
<1>13. CASE UNCHANGED payVars
  BY <1>13
<1> QED
  BY <1>1, <1>2, <1>3, <1>4, <1>5, <1>6, <1>7, <1>8, <1>9, <1>10, <1>11,
     <1>12, <1>13
     DEF PayNext, PayEvents, Begin, Step, Fails, Quiet

\* The payment behind the PAID that was read stays on the books.
LEMMA NextConfirm ==
  ASSUME NEW L, DataTypeOK(L), FrameInv, StageInv, PaidMeansCaptured, ConfirmInv, [PayNext]_payVars
  PROVE  ConfirmInv'
<1> USE DEF DataTypeOK, ConfirmInv, FrameInv, StageInv, PaidMeansCaptured,
            NoTxnStages, OrderStages, OtherStages, PaidStages, TicketStages,
            Final
<1>1. ASSUME NEW r \in Requests, PayRead(r) PROVE ConfirmInv'
  BY <1>1 DEF PayRead
<1>2. ASSUME NEW r \in Requests, ConfirmRead(r) PROVE ConfirmInv'
  BY <1>2 DEF ConfirmRead, Confirmable
<1>3. ASSUME NEW r \in Requests, CancelRead(r) PROVE ConfirmInv'
  BY <1>3 DEF CancelRead
<1>4. ASSUME NEW r \in Requests, RefundRead(r) PROVE ConfirmInv'
  BY <1>4 DEF RefundRead
<1>5. ASSUME NEW r \in Requests, HookRead(r) PROVE ConfirmInv'
  BY <1>5 DEF HookRead
<1>6. ASSUME NEW r \in Requests, Charge(r) PROVE ConfirmInv'
  BY <1>6 DEF Charge
<1>7. ASSUME NEW r \in Requests,
             \/ ReadTxnNumber(r) \/ InsertTxn(r) \/ TxnClash(r)
             \/ SettleApproved(r) \/ SettleDeclined(r)
             \/ SettleFails(r) \/ MarkPaid(r) \/ IssueTickets(r)
             \/ RecordFailure(r) \/ ExpireRead(r) \/ ExpireSave(r)
             \/ ConfirmSave(r) \/ CancelSave(r) \/ RefundCall(r)
             \/ RefundSave(r) \/ HookSave(r) \/ CallFails(r)
      PROVE ConfirmInv'
  <2>1. UNCHANGED <<captured, ord>>
    BY <1>7 DEF ReadTxnNumber, InsertTxn, StoreTxn, TxnClash, SettleApproved,
           SettledStatus, SettleDeclined, SettledStatus, SettleFails,
           MarkPaid, WriteStatus, IssueTickets, ReadTicketNumber, SaveTicket,
           StoreTicket, LastUnit, TicketClash, RecordFailure, MarkFailed,
           ExpireRead, ExpireSave, WriteStatus, ConfirmSave, WriteStatus,
           CancelSave, WriteStatus, RefundCall, AfterRefund, Reported,
           RefundSave, RefundStatus, HookSave, CallFails
  <2>2. \A q \in Requests : pc'[q] = "confirmSave" => pc[q] = "confirmSave"
    BY <1>7 DEF ReadTxnNumber, InsertTxn, StoreTxn, TxnClash, SettleApproved,
           SettledStatus, SettleDeclined, SettledStatus, SettleFails,
           MarkPaid, WriteStatus, IssueTickets, ReadTicketNumber, SaveTicket,
           StoreTicket, LastUnit, TicketClash, RecordFailure, MarkFailed,
           ExpireRead, ExpireSave, WriteStatus, ConfirmSave, WriteStatus,
           CancelSave, WriteStatus, RefundCall, AfterRefund, Reported,
           RefundSave, RefundStatus, HookSave, CallFails
  <2> QED
    BY <2>1, <2>2
<1>8. ASSUME NEW o \in Orders, TimePasses(o) PROVE ConfirmInv'
  BY <1>8 DEF TimePasses
<1>9. ASSUME NEW t \in Requests, ProviderRefund(t) PROVE ConfirmInv'
  BY <1>9 DEF ProviderRefund
<1>10. CASE Crash /\ UNCHANGED overdue
  BY <1>10 DEF Crash, InFlight
<1>11. CASE UNCHANGED payVars
  BY <1>11
<1> QED
  BY <1>1, <1>2, <1>3, <1>4, <1>5, <1>6, <1>7, <1>8, <1>9, <1>10, <1>11
     DEF PayNext, PayEvents, Begin, Step, Fails, Quiet

\* No handler takes an order back to PENDING_PAYMENT.
LEMMA NextClosed ==
  ASSUME NEW L, DataTypeOK(L), FrameInv, ClosedInv, [PayNext]_payVars
  PROVE  ClosedInv'
<1> USE DEF DataTypeOK, ClosedInv, FrameInv, OrderStages, PaidStages,
            TicketStages, OtherStages, Final
<1>1. ASSUME NEW r \in Requests, PayRead(r) PROVE ClosedInv'
  BY <1>1 DEF PayRead
<1>2. ASSUME NEW r \in Requests, ConfirmRead(r) PROVE ClosedInv'
  BY <1>2 DEF ConfirmRead
<1>3. ASSUME NEW r \in Requests, CancelRead(r) PROVE ClosedInv'
  BY <1>3 DEF CancelRead
<1>4. ASSUME NEW r \in Requests, RefundRead(r) PROVE ClosedInv'
  BY <1>4 DEF RefundRead
<1>5. ASSUME NEW r \in Requests, HookRead(r) PROVE ClosedInv'
  BY <1>5 DEF HookRead
<1>6. ASSUME NEW r \in Requests, MarkPaid(r) PROVE ClosedInv'
  BY <1>6 DEF MarkPaid, WriteStatus
<1>7. ASSUME NEW r \in Requests, ExpireSave(r) PROVE ClosedInv'
  BY <1>7 DEF ExpireSave, WriteStatus
<1>8. ASSUME NEW r \in Requests, ConfirmSave(r) PROVE ClosedInv'
  BY <1>8 DEF ConfirmSave, WriteStatus
<1>9. ASSUME NEW r \in Requests, CancelSave(r) PROVE ClosedInv'
  BY <1>9 DEF CancelSave, WriteStatus
<1>10. ASSUME NEW r \in Requests, IssueTickets(r) PROVE ClosedInv'
  BY <1>10 DEF IssueTickets, ReadTicketNumber, SaveTicket, StoreTicket,
         LastUnit, TicketClash
<1>11. ASSUME NEW r \in Requests,
             \/ ReadTxnNumber(r) \/ InsertTxn(r) \/ TxnClash(r)
             \/ Charge(r) \/ SettleApproved(r) \/ SettleDeclined(r)
             \/ SettleFails(r) \/ RecordFailure(r) \/ ExpireRead(r)
             \/ RefundCall(r) \/ RefundSave(r) \/ HookSave(r)
             \/ CallFails(r)
      PROVE ClosedInv'
  BY <1>11 DEF ReadTxnNumber, InsertTxn, StoreTxn, TxnClash, Charge,
         SettleApproved, SettledStatus, SettleDeclined, SettledStatus,
         SettleFails, RecordFailure, MarkFailed, ExpireRead, RefundCall,
         AfterRefund, Reported, RefundSave, RefundStatus, HookSave,
         CallFails
<1>12. ASSUME NEW o \in Orders, TimePasses(o) PROVE ClosedInv'
  BY <1>12 DEF TimePasses
<1>13. ASSUME NEW t \in Requests, ProviderRefund(t) PROVE ClosedInv'
  BY <1>13 DEF ProviderRefund
<1>14. CASE Crash /\ UNCHANGED overdue
  BY <1>14 DEF Crash, InFlight
<1>15. CASE UNCHANGED payVars
  BY <1>15
<1> QED
  BY <1>1, <1>2, <1>3, <1>4, <1>5, <1>6, <1>7, <1>8, <1>9, <1>10, <1>11,
     <1>12, <1>13, <1>14, <1>15
     DEF PayNext, PayEvents, Begin, Step, Fails, Quiet

\* PAID is written after the charge, CONFIRMED after PAID was read.
LEMMA NextPaid ==
  ASSUME NEW L, DataTypeOK(L), FrameInv, StageInv, ConfirmInv, PaidMeansCaptured, [PayNext]_payVars
  PROVE  PaidMeansCaptured'
<1> USE DEF DataTypeOK, PaidMeansCaptured, ConfirmInv, FrameInv, StageInv,
            NoTxnStages, OrderStages, OtherStages, PaidStages, TicketStages,
            Final
<1>1. ASSUME NEW r \in Requests, PayRead(r) PROVE PaidMeansCaptured'
  BY <1>1 DEF PayRead
<1>2. ASSUME NEW r \in Requests, ConfirmRead(r) PROVE PaidMeansCaptured'
  BY <1>2 DEF ConfirmRead
<1>3. ASSUME NEW r \in Requests, CancelRead(r) PROVE PaidMeansCaptured'
  BY <1>3 DEF CancelRead
<1>4. ASSUME NEW r \in Requests, RefundRead(r) PROVE PaidMeansCaptured'
  BY <1>4 DEF RefundRead
<1>5. ASSUME NEW r \in Requests, HookRead(r) PROVE PaidMeansCaptured'
  BY <1>5 DEF HookRead
<1>6. ASSUME NEW r \in Requests, Charge(r) PROVE PaidMeansCaptured'
  BY <1>6 DEF Charge
<1>7. ASSUME NEW r \in Requests, MarkPaid(r) PROVE PaidMeansCaptured'
  BY <1>7 DEF MarkPaid, WriteStatus
<1>8. ASSUME NEW r \in Requests, ExpireSave(r) PROVE PaidMeansCaptured'
  BY <1>8 DEF ExpireSave, WriteStatus
<1>9. ASSUME NEW r \in Requests, ConfirmSave(r) PROVE PaidMeansCaptured'
  BY <1>9 DEF ConfirmSave, WriteStatus
<1>10. ASSUME NEW r \in Requests, CancelSave(r) PROVE PaidMeansCaptured'
  BY <1>10 DEF CancelSave, WriteStatus
<1>11. ASSUME NEW r \in Requests,
             \/ ReadTxnNumber(r) \/ InsertTxn(r) \/ TxnClash(r)
             \/ SettleApproved(r) \/ SettleDeclined(r)
             \/ SettleFails(r) \/ IssueTickets(r) \/ RecordFailure(r)
             \/ ExpireRead(r) \/ RefundCall(r) \/ RefundSave(r)
             \/ HookSave(r) \/ CallFails(r)
      PROVE PaidMeansCaptured'
  BY <1>11 DEF ReadTxnNumber, InsertTxn, StoreTxn, TxnClash, SettleApproved,
         SettledStatus, SettleDeclined, SettledStatus, SettleFails,
         IssueTickets, ReadTicketNumber, SaveTicket, StoreTicket, LastUnit,
         TicketClash, RecordFailure, MarkFailed, ExpireRead, RefundCall,
         AfterRefund, Reported, RefundSave, RefundStatus, HookSave,
         CallFails
<1>12. ASSUME NEW o \in Orders, TimePasses(o) PROVE PaidMeansCaptured'
  BY <1>12 DEF TimePasses
<1>13. ASSUME NEW t \in Requests, ProviderRefund(t) PROVE PaidMeansCaptured'
  BY <1>13 DEF ProviderRefund
<1>14. CASE Crash /\ UNCHANGED overdue
  BY <1>14 DEF Crash, InFlight
<1>15. CASE UNCHANGED payVars
  BY <1>15
<1> QED
  BY <1>1, <1>2, <1>3, <1>4, <1>5, <1>6, <1>7, <1>8, <1>9, <1>10, <1>11,
     <1>12, <1>13, <1>14, <1>15
     DEF PayNext, PayEvents, Begin, Step, Fails, Quiet

\* The answer "ok" of a payment comes after its last ticket.
LEMMA NextOk ==
  ASSUME NEW L, DataTypeOK(L), FrameInv, StageInv, RefundInv, TicketInv, OkMeansDelivered, [PayNext]_payVars
  PROVE  OkMeansDelivered'
<1> USE DEF DataTypeOK, OkMeansDelivered, FrameInv, StageInv, RefundInv,
            TicketInv, NoTxnStages, TicketStages, PaidStages, OrderStages,
            OtherStages, Final
<1>1. ASSUME NEW r \in Requests, PayRead(r) PROVE OkMeansDelivered'
  BY <1>1 DEF PayRead
<1>2. ASSUME NEW r \in Requests, ConfirmRead(r) PROVE OkMeansDelivered'
  BY <1>2 DEF ConfirmRead
<1>3. ASSUME NEW r \in Requests, CancelRead(r) PROVE OkMeansDelivered'
  BY <1>3 DEF CancelRead
<1>4. ASSUME NEW r \in Requests, RefundRead(r) PROVE OkMeansDelivered'
  BY <1>4 DEF RefundRead
<1>5. ASSUME NEW r \in Requests, HookRead(r) PROVE OkMeansDelivered'
  BY <1>5 DEF HookRead
<1>6. ASSUME NEW r \in Requests, InsertTxn(r) PROVE OkMeansDelivered'
  BY <1>6 DEF InsertTxn, StoreTxn
<1>7. ASSUME NEW r \in Requests, SettleApproved(r) PROVE OkMeansDelivered'
  BY <1>7 DEF SettleApproved, SettledStatus
<1>8. ASSUME NEW r \in Requests, SettleDeclined(r) PROVE OkMeansDelivered'
  BY <1>8 DEF SettleDeclined, SettledStatus
<1>9. ASSUME NEW r \in Requests, SettleFails(r) PROVE OkMeansDelivered'
  BY <1>9 DEF SettleFails
<1>10. ASSUME NEW r \in Requests, RecordFailure(r) PROVE OkMeansDelivered'
  BY <1>10 DEF RecordFailure, MarkFailed
<1>11. ASSUME NEW r \in Requests, IssueTickets(r) PROVE OkMeansDelivered'
  BY <1>11 DEF IssueTickets, ReadTicketNumber, SaveTicket, StoreTicket,
         LastUnit, TicketClash
<1>12. ASSUME NEW r \in Requests, RefundSave(r) PROVE OkMeansDelivered'
  BY <1>12 DEF RefundSave, RefundStatus
<1>13. ASSUME NEW r \in Requests, HookSave(r) PROVE OkMeansDelivered'
  BY <1>13 DEF HookSave
<1>14. ASSUME NEW r \in Requests, CallFails(r) PROVE OkMeansDelivered'
  <2>1. pc'[r] # "ok" /\ \A q \in Requests \ {r} : pc'[q] = pc[q]
    BY <1>14 DEF CallFails, Goto, Answer
  <2>2. UNCHANGED <<issued, units, ord, txnStatus>>
    BY <1>14 DEF CallFails, Answer, orderVars, txnVars, ticketVars, localVars
  <2> QED
    BY <2>1, <2>2
<1>15. ASSUME NEW r \in Requests,
             \/ ReadTxnNumber(r) \/ TxnClash(r) \/ Charge(r)
             \/ MarkPaid(r) \/ ExpireRead(r) \/ ExpireSave(r)
             \/ ConfirmSave(r) \/ CancelSave(r) \/ RefundCall(r)
      PROVE OkMeansDelivered'
  BY <1>15 DEF ReadTxnNumber, TxnClash, Charge, MarkPaid, WriteStatus,
         ExpireRead, ExpireSave, WriteStatus, ConfirmSave, WriteStatus,
         CancelSave, WriteStatus, RefundCall, AfterRefund, Reported
<1>16. ASSUME NEW o \in Orders, TimePasses(o) PROVE OkMeansDelivered'
  BY <1>16 DEF TimePasses
<1>17. ASSUME NEW t \in Requests, ProviderRefund(t) PROVE OkMeansDelivered'
  BY <1>17 DEF ProviderRefund
<1>18. CASE Crash /\ UNCHANGED overdue
  BY <1>18 DEF Crash, InFlight
<1>19. CASE UNCHANGED payVars
  BY <1>19
<1> QED
  BY <1>1, <1>2, <1>3, <1>4, <1>5, <1>6, <1>7, <1>8, <1>9, <1>10, <1>11,
     <1>12, <1>13, <1>14, <1>15, <1>16, <1>17, <1>18, <1>19
     DEF PayNext, PayEvents, Begin, Step, Fails, Quiet

\* The answer "error" comes before the transaction, or after the catch block;
\* the answer "declined" after a charge that failed.
LEMMA NextError ==
  ASSUME NEW L, DataTypeOK(L), FrameInv, StageInv, ErrorInv, [PayNext]_payVars
  PROVE  ErrorInv'
<1> USE DEF DataTypeOK, ErrorInv, FrameInv, StageInv, NoTxnStages,
            OtherStages, PaidStages, TicketStages, Final
<1>1. ASSUME NEW r \in Requests, PayRead(r) PROVE ErrorInv'
  BY <1>1 DEF PayRead
<1>2. ASSUME NEW r \in Requests, ConfirmRead(r) PROVE ErrorInv'
  BY <1>2 DEF ConfirmRead
<1>3. ASSUME NEW r \in Requests, CancelRead(r) PROVE ErrorInv'
  BY <1>3 DEF CancelRead
<1>4. ASSUME NEW r \in Requests, RefundRead(r) PROVE ErrorInv'
  BY <1>4 DEF RefundRead
<1>5. ASSUME NEW r \in Requests, HookRead(r) PROVE ErrorInv'
  BY <1>5 DEF HookRead
<1>6. ASSUME NEW r \in Requests, InsertTxn(r) PROVE ErrorInv'
  BY <1>6 DEF InsertTxn, StoreTxn
<1>7. ASSUME NEW r \in Requests, SettleApproved(r) PROVE ErrorInv'
  BY <1>7 DEF SettleApproved, SettledStatus
<1>8. ASSUME NEW r \in Requests, SettleDeclined(r) PROVE ErrorInv'
  BY <1>8 DEF SettleDeclined, SettledStatus
<1>9. ASSUME NEW r \in Requests, SettleFails(r) PROVE ErrorInv'
  BY <1>9 DEF SettleFails
<1>10. ASSUME NEW r \in Requests, RecordFailure(r) PROVE ErrorInv'
  BY <1>10 DEF RecordFailure, MarkFailed
<1>11. ASSUME NEW r \in Requests, RefundSave(r) PROVE ErrorInv'
  BY <1>11 DEF RefundSave, RefundStatus
<1>12. ASSUME NEW r \in Requests, HookSave(r) PROVE ErrorInv'
  BY <1>12 DEF HookSave
<1>13. ASSUME NEW r \in Requests, CallFails(r) PROVE ErrorInv'
  BY <1>13 DEF CallFails
<1>14. ASSUME NEW r \in Requests,
             \/ ReadTxnNumber(r) \/ TxnClash(r) \/ Charge(r)
             \/ MarkPaid(r) \/ IssueTickets(r) \/ ExpireRead(r)
             \/ ExpireSave(r) \/ ConfirmSave(r) \/ CancelSave(r)
             \/ RefundCall(r)
      PROVE ErrorInv'
  BY <1>14 DEF ReadTxnNumber, TxnClash, Charge, MarkPaid, WriteStatus,
         IssueTickets, ReadTicketNumber, SaveTicket, StoreTicket, LastUnit,
         TicketClash, ExpireRead, ExpireSave, WriteStatus, ConfirmSave,
         WriteStatus, CancelSave, WriteStatus, RefundCall, AfterRefund,
         Reported
<1>15. ASSUME NEW o \in Orders, TimePasses(o) PROVE ErrorInv'
  BY <1>15 DEF TimePasses
<1>16. ASSUME NEW t \in Requests, ProviderRefund(t) PROVE ErrorInv'
  BY <1>16 DEF ProviderRefund
<1>17. CASE Crash /\ UNCHANGED overdue
  BY <1>17 DEF Crash, InFlight
<1>18. CASE UNCHANGED payVars
  BY <1>18
<1> QED
  BY <1>1, <1>2, <1>3, <1>4, <1>5, <1>6, <1>7, <1>8, <1>9, <1>10, <1>11,
     <1>12, <1>13, <1>14, <1>15, <1>16, <1>17, <1>18
     DEF PayNext, PayEvents, Begin, Step, Fails, Quiet

(***************************************************************************)
(* The inductive invariant, and what follows from it.                       *)
(***************************************************************************)
LEMMA InitInv == PayInit => PayInv
<1> SUFFICES ASSUME PayInit PROVE PayInv
  OBVIOUS
<1> USE DEF PayInit, StoreInit
<1>1. PayTypeOK
  BY InitType
<1>2. FrameInv /\ StageInv /\ RefundInv /\ TicketInv
  BY UnitsAssumption DEF FrameInv, StageInv, RefundInv, TicketInv, OrderStages,
     PaidStages, TicketStages, OtherStages, NoTxnStages
<1>3. ConfirmInv /\ ClosedInv /\ PaidMeansCaptured
  BY DEF ConfirmInv, ClosedInv, PaidMeansCaptured, TicketStages
<1>4. ChargesAreRecorded /\ OkMeansDelivered /\ ErrorInv
  BY DEF ChargesAreRecorded, OkMeansDelivered, ErrorInv
<1> QED
  BY <1>1, <1>2, <1>3, <1>4 DEF PayInv

\* Every step keeps the invariant.
LEMMA NextInv == PayInv /\ [PayNext]_payVars => PayInv'
BY NextType, NextFrame, NextStage, NextRecorded, NextRefund, NextTicket,
   NextConfirm, NextClosed, NextPaid, NextOk, NextError DEF PayInv, PayTypeOK

\* PayInv holds of every reachable state of the handlers.
THEOREM Invariance == PaySpec => []PayInv
BY InitInv, NextInv, PTL DEF PaySpec

\* The collections and the requests' local state keep their types.
THEOREM TypeCorrect == PaySpec => []PayTypeOK
<1>1. PayInv => PayTypeOK
  BY DEF PayInv
<1> QED
  BY <1>1, Invariance, PTL

\* An order is PAID or CONFIRMED only if a payment for it was taken, for any
\* number of concurrent payments, cancellations and confirmations.
THEOREM PaidIsCaptured == PaySpec => []PaidMeansCaptured
<1>1. PayInv => PaidMeansCaptured
  BY DEF PayInv
<1> QED
  BY <1>1, Invariance, PTL

\* No crash, rejected save or lost answer of the provider leaves money taken
\* without a stored transaction.
THEOREM ChargeIsRecorded == PaySpec => []ChargesAreRecorded
<1>1. PayInv => ChargesAreRecorded
  BY DEF PayInv
<1> QED
  BY <1>1, Invariance, PTL

\* A payment answered normally with an approved charge gave out exactly the
\* tickets of its order, whatever numbers concurrent requests took.
THEOREM OkIsDelivered == PaySpec => []OkMeansDelivered
<1>1. PayInv => OkMeansDelivered
  BY DEF PayInv
<1> QED
  BY <1>1, Invariance, PTL

\* A COMPLETED payment whose request is over gave out its order's tickets,
\* unless the process died or the catch block could not save.
THEOREM CompletedIsServed == PaySpec => []CompletedIsDelivered
<1>1. PayInv => CompletedIsDelivered
  BY DEF PayInv, PayTypeOK, DataTypeOK, Labels, Final, InFlight, ErrorInv,
     StageInv, NoTxnStages, OtherStages, OkMeansDelivered, CompletedIsDelivered
<1> QED
  BY <1>1, Invariance, PTL

\* The provider's charge events find no transaction they would change.
THEOREM ChargeWebhookIsIdle == PaySpec => []ChargeWebhookFindsNothing
<1>1. PayInv => ChargeWebhookFindsNothing
  BY DEF PayInv, StageInv, ChargeWebhookFindsNothing, ChargeWebhookFinds
<1> QED
  BY <1>1, Invariance, PTL

\* A transaction recorded as refunded was charged, and was refunded by the
\* provider or announced as refunded by an event.
THEOREM RefundsAreTraced == PaySpec => []RefundIsTraced
<1>1. PayInv => RefundIsTraced
  BY DEF PayInv, RefundInv, StageInv, RefundIsTraced
<1> QED
  BY <1>1, Invariance, PTL

(***************************************************************************)
(* Closed orders.  Once o has left PENDING_PAYMENT, a request not yet made  *)
(* never comes to the charge with o: Uncharged is kept by every step.       *)
(***************************************************************************)
Uncharged(o, r) ==
    /\ orderStatus[o] # "pending_payment"
    /\ ord[r] = o => ~captured[r] /\ pc[r] \notin {"txnNumber", "txnInsert", "charge"}

\* No later step charges an order that was closed uncharged.
LEMMA UnchargedKept ==
  ASSUME PayInv, NEW o \in Orders, NEW r \in Requests, Uncharged(o, r), [PayNext]_payVars
  PROVE  Uncharged(o, r)'
<1> USE DEF PayInv, PayTypeOK, DataTypeOK, FrameInv, StageInv, Uncharged, NoTxnStages,
            OtherStages, OrderStages, PaidStages, TicketStages, Final
<1>1. ASSUME NEW q \in Requests, PayRead(q) PROVE Uncharged(o, r)'
  BY <1>1 DEF PayRead, Payable
<1>2. ASSUME NEW q \in Requests, ConfirmRead(q) \/ CancelRead(q) PROVE Uncharged(o, r)'
  BY <1>2 DEF ConfirmRead, CancelRead
<1>3. ASSUME NEW q \in Requests, RefundRead(q) \/ HookRead(q) PROVE Uncharged(o, r)'
  BY <1>3 DEF RefundRead, HookRead
<1>4. ASSUME NEW q \in Requests, ReadTxnNumber(q) \/ InsertTxn(q) \/ TxnClash(q)
      PROVE Uncharged(o, r)'
  BY <1>4 DEF ReadTxnNumber, InsertTxn, StoreTxn, TxnClash
<1>5. ASSUME NEW q \in Requests, Charge(q) PROVE Uncharged(o, r)'
  BY <1>5 DEF Charge
<1>6. ASSUME NEW q \in Requests, SettleApproved(q) \/ SettleDeclined(q) \/ SettleFails(q)
      PROVE Uncharged(o, r)'
  BY <1>6 DEF SettleApproved, SettleDeclined, SettleFails
<1>7. ASSUME NEW q \in Requests, MarkPaid(q) PROVE Uncharged(o, r)'
  BY <1>7 DEF MarkPaid, WriteStatus
<1>8. ASSUME NEW q \in Requests, IssueTickets(q) \/ RecordFailure(q)
      PROVE Uncharged(o, r)'
  BY <1>8 DEF IssueTickets, ReadTicketNumber, SaveTicket, StoreTicket,
     LastUnit,
     TicketClash, RecordFailure, MarkFailed
<1>9. ASSUME NEW q \in Requests,
             ExpireRead(q) \/ ExpireSave(q) \/ ConfirmSave(q) \/ CancelSave(q)
      PROVE Uncharged(o, r)'
  BY <1>9 DEF ExpireRead, ExpireSave, ConfirmSave, CancelSave, WriteStatus
<1>10. ASSUME NEW q \in Requests,
              RefundCall(q) \/ RefundSave(q) \/ HookSave(q) \/ CallFails(q)
       PROVE Uncharged(o, r)'
  BY <1>10 DEF RefundCall, AfterRefund, RefundSave, HookSave, CallFails
<1>11. ASSUME (\E q \in Orders : TimePasses(q)) \/ (\E t \in Requests : ProviderRefund(t))
              \/ (Crash /\ UNCHANGED overdue) \/ UNCHANGED payVars
       PROVE Uncharged(o, r)'
  BY <1>11 DEF TimePasses, ProviderRefund, Crash, InFlight
<1> QED
  BY <1>1, <1>2, <1>3, <1>4, <1>5, <1>6, <1>7, <1>8, <1>9, <1>10, <1>11
     DEF PayNext, PayEvents, Begin, Step, Fails, Quiet

\* An order that is paid, cancelled or expired is not charged to any payment
\* request made after that.
THEOREM ClosedIsNotCharged == PaySpec => ClosedOrderIsNotCharged
<1> SUFFICES ASSUME NEW o \in Orders, NEW r \in Requests
             PROVE PaySpec =>
                [](orderStatus[o] # "pending_payment" /\ pc[r] = "idle"
                    => [](captured[r] => ord[r] # o))
  BY DEF ClosedOrderIsNotCharged
<1>1. PayInv /\ orderStatus[o] # "pending_payment" /\ pc[r] = "idle" => Uncharged(o, r)
  BY DEF PayInv, StageInv, Uncharged, NoTxnStages
<1>2. Uncharged(o, r) => (captured[r] => ord[r] # o)
  BY DEF Uncharged
<1>3. PayInv /\ Uncharged(o, r) /\ [PayNext]_payVars => Uncharged(o, r)'
  BY UnchargedKept
<1> QED
  BY <1>1, <1>2, <1>3, Invariance, PTL DEF PaySpec

(***************************************************************************)
(* A payment that was answered keeps its order.                             *)
(***************************************************************************)
LEMMA AnsweredKept ==
  ASSUME PayInv, NEW p \in Requests, Kind[p] = "pay", pc[p] = "ok", [PayNext]_payVars
  PROVE  pc'[p] = "ok" /\ ord'[p] = ord[p]
<1> USE DEF PayInv, PayTypeOK, DataTypeOK
<1>1. ASSUME NEW q \in Requests, Begin(q) PROVE pc'[p] = "ok" /\ ord'[p] = ord[p]
  BY <1>1 DEF Begin, PayRead, ConfirmRead, CancelRead, RefundRead, HookRead
<1>2. ASSUME NEW q \in Requests, Step(q) \/ Fails(q)
      PROVE pc'[p] = "ok" /\ ord'[p] = ord[p]
  BY <1>2 DEF Step, Fails, ReadTxnNumber, InsertTxn, TxnClash, Charge,
     SettleApproved,
     SettleDeclined, SettleFails, MarkPaid, IssueTickets, ReadTicketNumber,
     SaveTicket, TicketClash, RecordFailure, ExpireRead, ExpireSave,
     ConfirmSave, CancelSave, RefundCall, RefundSave, HookSave, CallFails
<1> QED
  BY <1>1, <1>2 DEF PayNext, PayEvents, Quiet, TimePasses, ProviderRefund, Crash,
     InFlight, Final

\* An order whose payment was answered normally is not charged to any payment
\* request made after that.
THEOREM PaidIsNotChargedAgain == PaySpec => PaidOrderIsNotChargedAgain
<1> SUFFICES ASSUME NEW p \in Requests, NEW r \in Requests
             PROVE PaySpec =>
                [](Kind[p] = "pay" /\ pc[p] = "ok" /\ pc[r] = "idle"
                    => [](captured[r] => ord[r] # ord[p]))
  BY DEF PaidOrderIsNotChargedAgain
<1> DEFINE Spent == Kind[p] = "pay" /\ pc[p] = "ok" /\ ord[p] \in Orders
                        /\ Uncharged(ord[p], r)
<1>1. PayInv /\ Kind[p] = "pay" /\ pc[p] = "ok" /\ pc[r] = "idle" => Spent
  BY DEF PayInv, StageInv, ClosedInv, Uncharged, NoTxnStages
<1>2. Spent => (captured[r] => ord[r] # ord[p])
  BY DEF Uncharged
<1>3. PayInv /\ Spent /\ [PayNext]_payVars => Spent'
  <2> SUFFICES ASSUME PayInv, Spent, [PayNext]_payVars PROVE Spent'
    OBVIOUS
  <2>1. pc'[p] = "ok" /\ ord'[p] = ord[p]
    BY AnsweredKept
  <2>2. \A o \in Orders : Uncharged(o, r) => Uncharged(o, r)'
    BY UnchargedKept
  <2> QED
    BY <2>1, <2>2 DEF Uncharged
<1> HIDE DEF Spent
<1> QED
  BY <1>1, <1>2, <1>3, Invariance, PTL DEF PaySpec

(***************************************************************************)
(* The handlers implement the ledger of money and tickets.                  *)
(***************************************************************************)
LEMMA LedgerInit == PayInit => Ledger!Init
BY UnitsAssumption DEF PayInit, StoreInit, Ledger!Init

\* Every step is one of the ledger, or leaves it.
LEMMA LedgerStep ==
  ASSUME NEW L, DataTypeOK(L), FrameInv, StageInv, TicketInv, [PayNext]_payVars
  PROVE  [Ledger!Next]_(Ledger!ledgerVars)
<1> USE DEF DataTypeOK, Ledger!ledgerVars
<1>1. ASSUME NEW r \in Requests, Charge(r) PROVE [Ledger!Next]_(Ledger!ledgerVars)
  <2>1. PICK taken \in BOOLEAN : captured' = [captured EXCEPT ![r] = taken]
    BY <1>1 DEF Charge
  <2>2. ~captured[r] /\ UNCHANGED <<units, issued>>
    BY <1>1 DEF Charge, StageInv
  <2>3. CASE taken
    BY <2>1, <2>2, <2>3 DEF Ledger!Next, Ledger!Capture
  <2>4. CASE ~taken
    BY <2>1, <2>2, <2>4
  <2> QED
    BY <2>3, <2>4
<1>2. ASSUME NEW r \in Requests, Kind[r] = "pay", SaveTicket(r, "ok")
      PROVE [Ledger!Next]_(Ledger!ledgerVars)
  <2>1. ord[r] \in Orders /\ captured[r]
    BY <1>2 DEF SaveTicket, FrameInv, StageInv, OrderStages, PaidStages,
       TicketStages
  <2>2. issued[r][ord[r]] < units[ord[r]]
    BY <1>2, <2>1 DEF SaveTicket, TicketInv, TicketStages
  <2>3. issued' = [issued EXCEPT ![r][ord[r]] = @ + 1] /\ UNCHANGED <<units, captured>>
    BY <1>2 DEF SaveTicket, StoreTicket
  <2> QED
    BY <2>1, <2>2, <2>3 DEF Ledger!Next, Ledger!Issue
<1>3. ASSUME NEW r \in Requests, Begin(r) PROVE UNCHANGED Ledger!ledgerVars
  BY <1>3 DEF Begin, PayRead, ConfirmRead, CancelRead, RefundRead, HookRead
<1>4. ASSUME NEW r \in Requests, Step(r) \/ Fails(r), ~Charge(r),
             ~(Kind[r] = "pay" /\ SaveTicket(r, "ok"))
      PROVE UNCHANGED Ledger!ledgerVars
  BY <1>4 DEF Step, Fails, ReadTxnNumber, InsertTxn, TxnClash, SettleApproved,
     SettleDeclined, SettleFails, MarkPaid, IssueTickets, ReadTicketNumber,
     TicketClash, RecordFailure, ExpireRead, ExpireSave, ConfirmSave,
     CancelSave, RefundCall, RefundSave, HookSave, CallFails
<1>5. ASSUME (\E q \in Orders : TimePasses(q)) \/ (\E t \in Requests : ProviderRefund(t))
             \/ (Crash /\ UNCHANGED overdue) \/ UNCHANGED payVars
      PROVE UNCHANGED Ledger!ledgerVars
  BY <1>5 DEF TimePasses, ProviderRefund, Crash
<1> QED
  BY <1>1, <1>2, <1>3, <1>4, <1>5 DEF PayNext, PayEvents, Quiet

\* Tickets are given out only after the provider took the payment's money,
\* and never more than the order is for.
THEOREM LedgerRefinement == PaySpec => ImplementsLedger
<1>1. PayInv /\ [PayNext]_payVars => [Ledger!Next]_(Ledger!ledgerVars)
  BY LedgerStep DEF PayInv, PayTypeOK
<1> QED
  BY <1>1, LedgerInit, Invariance, PTL DEF PaySpec, ImplementsLedger,
     Ledger!Spec
=============================================================================
