----------------------- MODULE WebhookDelivery_proofs -----------------------
(***************************************************************************)
(* The safety properties of WebhookDelivery, for any number of request     *)
(* slots, deliveries and jobs, any retention periods and any set of        *)
(* faults.  One lemma per action shows that it preserves IInv, one step    *)
(* per conjunct; the properties then follow.  The second part proves that  *)
(* the endpoint implements DeliveryBook, again one lemma per action, and   *)
(* the last one which rows are left PENDING.                               *)
(***************************************************************************)
EXTENDS WebhookDelivery, TLAPS

\* Nothing is in flight, logged, recorded or acknowledged at the start.
LEMMA InitEstablishes == Init => IInv
<1> SUFFICES ASSUME Init PROVE IInv
  OBVIOUS
<1> USE DeliveryAssumption, NoneIsNoRow DEF Init
<1>1. TypeOK
  BY DEF TypeOK, Stage, Reply, Delivery
<1>2. OriginsKnown /\ PathsSeparate /\ OneOwnerPerDelivery /\ OwnerHoldsRow
  BY DEF OriginsKnown, Known, PathsSeparate, OneOwnerPerDelivery, OwnerHoldsRow, Owner
<1>3. FreshOrRefused /\ HandlerRunsFresh /\ JobsAccounted /\ RecordMeansQueued
  BY DEF FreshOrRefused, HandlerRunsFresh, JobsAccounted, RecordMeansQueued
<1>4. AcknowledgedMeansQueued /\ RecordsDated
  BY DEF AcknowledgedMeansQueued, RecordsDated
<1>5. QED
  BY <1>1, <1>2, <1>3, <1>4 DEF IInv

\* A new arrival is not yet past the idempotency check.
LEMMA ReceivePreserves ==
    ASSUME IInv, NEW r \in Request, NEW d \in Delivery, Receive(r, d)
    PROVE  IInv'
<1> USE DeliveryAssumption, NoneIsNoRow DEF IInv, TypeOK, tables
<1>1. TypeOK'
  BY DEF Receive, Start, Delivery, LogRow, LogStatus, Stage, Reply
<1>2. OriginsKnown'
  BY DEF Receive, Start, Known, Delivery, OriginsKnown
<1>3. PathsSeparate'
  BY DEF Receive, Start, Owner, IsPing, PayloadOf, PathsSeparate
<1>4. OneOwnerPerDelivery'
  BY DEF Receive, Start, Owner, OneOwnerPerDelivery
<1>5. OwnerHoldsRow'
  BY DEF Receive, Start, Owner, Delivery, OwnerHoldsRow
<1>6. FreshOrRefused'
  BY DEF Receive, Start, FreshOrRefused
<1>7. HandlerRunsFresh'
  BY DEF Receive, Start, HandlerRunsFresh
<1>8. JobsAccounted'
  BY DEF Receive, Start, JobsOf, PayloadOf, JobsAccounted
<1>9. RecordMeansQueued'
  BY DEF Receive, Start, JobsOf, PayloadOf, Delivery, RecordMeansQueued
<1>10. AcknowledgedMeansQueued'
  BY DEF Receive, Start, JobsOf, PayloadOf, AcknowledgedMeansQueued
<1>11. RecordsDated'
  BY DEF Receive, Start, Delivery, RecordsDated
<1>12. QED
  BY <1>1, <1>2, <1>3, <1>4, <1>5, <1>6, <1>7, <1>8, <1>9, <1>10, <1>11

\* The minted id is unused or already carries the same payload, so no job set changes.
LEMMA ManualRetryPreserves ==
    ASSUME IInv, NEW r \in Request, NEW d \in Delivery, NEW x \in RetryId, ManualRetry(r, d, x)
    PROVE  IInv'
<1> USE DeliveryAssumption, NoneIsNoRow DEF IInv, TypeOK, tables
<1>1. TypeOK'
  BY DEF ManualRetry, Start, PayloadOf, Delivery, LogRow, LogStatus, Stage, Reply
<1>2. OriginsKnown'
  BY DEF ManualRetry, Start, Known, PayloadOf, Delivery, OriginsKnown
<1>3. PathsSeparate'
  BY DEF ManualRetry, Start, Owner, Known, IsPing, PayloadOf, Delivery, OriginsKnown,
         PathsSeparate
<1>4. OneOwnerPerDelivery'
  BY DEF ManualRetry, Start, Owner, PayloadOf, OneOwnerPerDelivery
<1>5. OwnerHoldsRow'
  BY DEF ManualRetry, Start, Owner, PayloadOf, Delivery, OwnerHoldsRow
<1>6. FreshOrRefused'
  BY DEF ManualRetry, Start, PayloadOf, FreshOrRefused
<1>7. HandlerRunsFresh'
  BY DEF ManualRetry, Start, PayloadOf, HandlerRunsFresh
<1>8. JobsAccounted'
  BY DEF ManualRetry, Start, Known, JobsOf, PayloadOf, Delivery, OriginsKnown, JobsAccounted
<1>9. RecordMeansQueued'
  BY DEF ManualRetry, Start, Known, JobsOf, PayloadOf, Delivery, OriginsKnown,
         RecordMeansQueued
<1>10. AcknowledgedMeansQueued'
  BY DEF ManualRetry, Start, Known, JobsOf, PayloadOf, Delivery, OriginsKnown,
         AcknowledgedMeansQueued
<1>11. RecordsDated'
  BY DEF ManualRetry, Start, PayloadOf, Delivery, RecordsDated
<1>12. QED
  BY <1>1, <1>2, <1>3, <1>4, <1>5, <1>6, <1>7, <1>8, <1>9, <1>10, <1>11

\* Past the check, the delivery is off record.
LEMMA IsProcessedPreserves ==
    ASSUME IInv, NEW r \in Request, IsProcessed(r)
    PROVE  IInv'
<1> USE DeliveryAssumption, NoneIsNoRow DEF IInv, TypeOK, tables
<1>1. TypeOK'
  BY DEF IsProcessed, Goto, IsPing, PayloadOf, Delivery, LogRow, LogStatus, Stage, Reply
<1>2. OriginsKnown'
  BY DEF IsProcessed, Goto, Known, IsPing, PayloadOf, Delivery, OriginsKnown
<1>3. PathsSeparate'
  BY DEF IsProcessed, Goto, Owner, IsPing, PayloadOf, PathsSeparate
<1>4. OneOwnerPerDelivery'
  BY DEF IsProcessed, Goto, Owner, IsPing, PayloadOf, OneOwnerPerDelivery
<1>5. OwnerHoldsRow'
  BY DEF IsProcessed, Goto, Owner, IsPing, PayloadOf, Delivery, OwnerHoldsRow
<1>6. FreshOrRefused'
  BY DEF IsProcessed, Goto, IsPing, PayloadOf, FreshOrRefused
<1>7. HandlerRunsFresh'
  BY DEF IsProcessed, Goto, IsPing, PayloadOf, HandlerRunsFresh
<1>8. JobsAccounted'
  BY DEF IsProcessed, Goto, JobsOf, IsPing, PayloadOf, JobsAccounted
<1>9. RecordMeansQueued'
  BY DEF IsProcessed, Goto, JobsOf, IsPing, PayloadOf, Delivery, RecordMeansQueued
<1>10. AcknowledgedMeansQueued'
  BY DEF IsProcessed, Goto, JobsOf, IsPing, PayloadOf, AcknowledgedMeansQueued
<1>11. RecordsDated'
  BY DEF IsProcessed, Goto, IsPing, PayloadOf, Delivery, RecordsDated
<1>12. QED
  BY <1>1, <1>2, <1>3, <1>4, <1>5, <1>6, <1>7, <1>8, <1>9, <1>10, <1>11

\* A cached answer is backed by the record just read.
LEMMA GetCachedResultPreserves ==
    ASSUME IInv, NEW r \in Request, GetCachedResult(r)
    PROVE  IInv'
<1> USE DeliveryAssumption, NoneIsNoRow DEF IInv, TypeOK, tables
<1>1. TypeOK'
  BY DEF GetCachedResult, Goto, Finish, IsPing, PayloadOf, Delivery, LogRow, LogStatus,
         Stage, Reply
<1>2. OriginsKnown'
  BY DEF GetCachedResult, Goto, Finish, Known, IsPing, PayloadOf, Delivery, OriginsKnown
<1>3. PathsSeparate'
  BY DEF GetCachedResult, Goto, Finish, Owner, IsPing, PayloadOf, PathsSeparate
<1>4. OneOwnerPerDelivery'
  BY DEF GetCachedResult, Goto, Finish, Owner, IsPing, PayloadOf, OneOwnerPerDelivery
<1>5. OwnerHoldsRow'
  BY DEF GetCachedResult, Goto, Finish, Owner, IsPing, PayloadOf, Delivery, OwnerHoldsRow
<1>6. FreshOrRefused'
  BY DEF GetCachedResult, Goto, Finish, IsPing, PayloadOf, FreshOrRefused
<1>7. HandlerRunsFresh'
  BY DEF GetCachedResult, Goto, Finish, IsPing, PayloadOf, HandlerRunsFresh
<1>8. JobsAccounted'
  BY DEF GetCachedResult, Goto, Finish, JobsOf, IsPing, PayloadOf, JobsAccounted
<1>9. RecordMeansQueued'
  BY DEF GetCachedResult, Goto, Finish, JobsOf, IsPing, PayloadOf, Delivery,
         RecordMeansQueued
<1>10. AcknowledgedMeansQueued'
  BY DEF GetCachedResult, Goto, Finish, JobsOf, IsPing, PayloadOf, Delivery,
         RecordMeansQueued, AcknowledgedMeansQueued
<1>11. RecordsDated'
  BY DEF GetCachedResult, Goto, Finish, IsPing, PayloadOf, Delivery, RecordsDated
<1>12. QED
  BY <1>1, <1>2, <1>3, <1>4, <1>5, <1>6, <1>7, <1>8, <1>9, <1>10, <1>11

\* A ping's record never concerns an event: the two paths are separate.
LEMMA PingPreserves ==
    ASSUME IInv, NEW r \in Request, Ping(r)
    PROVE  IInv'
<1> USE DeliveryAssumption, NoneIsNoRow DEF IInv, TypeOK, tables
<1>1. TypeOK'
  BY DEF Ping, Finish, Delivery, LogRow, LogStatus, Stage, Reply
<1>2. OriginsKnown'
  BY DEF Ping, Finish, Known, Delivery, OriginsKnown
<1>3. PathsSeparate'
  BY DEF Ping, Finish, Owner, IsPing, PayloadOf, PathsSeparate
<1>4. OneOwnerPerDelivery'
  BY DEF Ping, Finish, Owner, OneOwnerPerDelivery
<1>5. OwnerHoldsRow'
  BY DEF Ping, Finish, Owner, Delivery, OwnerHoldsRow
<1>6. FreshOrRefused'
  BY DEF Ping, Finish, JobsOf, IsPing, PayloadOf, Delivery, PathsSeparate, FreshOrRefused
<1>7. HandlerRunsFresh'
  BY DEF Ping, Finish, JobsOf, IsPing, PayloadOf, Delivery, PathsSeparate,
         HandlerRunsFresh, Owner
<1>8. JobsAccounted'
  BY DEF Ping, Finish, JobsOf, PayloadOf, JobsAccounted
<1>9. RecordMeansQueued'
  BY DEF Ping, Finish, JobsOf, IsPing, PayloadOf, Delivery, PathsSeparate, RecordMeansQueued
<1>10. AcknowledgedMeansQueued'
  BY DEF Ping, Finish, JobsOf, PayloadOf, AcknowledgedMeansQueued
<1>11. RecordsDated'
  BY DEF Ping, Finish, Delivery, RecordsDated
<1>12. QED
  BY <1>1, <1>2, <1>3, <1>4, <1>5, <1>6, <1>7, <1>8, <1>9, <1>10, <1>11

\* Authorisation touches no table.
LEMMA AuthorizePreserves ==
    ASSUME IInv, NEW r \in Request, Authorize(r)
    PROVE  IInv'
<1> USE DeliveryAssumption, NoneIsNoRow DEF IInv, TypeOK, tables
<1>1. TypeOK'
  BY DEF Authorize, Goto, Finish, Delivery, LogRow, LogStatus, Stage, Reply
<1>2. OriginsKnown'
  BY DEF Authorize, Goto, Finish, Known, Delivery, OriginsKnown
<1>3. PathsSeparate'
  BY DEF Authorize, Goto, Finish, Owner, IsPing, PayloadOf, PathsSeparate
<1>4. OneOwnerPerDelivery'
  BY DEF Authorize, Goto, Finish, Owner, OneOwnerPerDelivery
<1>5. OwnerHoldsRow'
  BY DEF Authorize, Goto, Finish, Owner, Delivery, OwnerHoldsRow
<1>6. FreshOrRefused'
  BY DEF Authorize, Goto, Finish, FreshOrRefused
<1>7. HandlerRunsFresh'
  BY DEF Authorize, Goto, Finish, HandlerRunsFresh
<1>8. JobsAccounted'
  BY DEF Authorize, Goto, Finish, JobsOf, PayloadOf, JobsAccounted
<1>9. RecordMeansQueued'
  BY DEF Authorize, Goto, Finish, JobsOf, PayloadOf, Delivery, RecordMeansQueued
<1>10. AcknowledgedMeansQueued'
  BY DEF Authorize, Goto, Finish, JobsOf, PayloadOf, AcknowledgedMeansQueued
<1>11. RecordsDated'
  BY DEF Authorize, Goto, Finish, Delivery, RecordsDated
<1>12. QED
  BY <1>1, <1>2, <1>3, <1>4, <1>5, <1>6, <1>7, <1>8, <1>9, <1>10, <1>11

\* The unique index admits one owner, and only for a delivery that is off record.
LEMMA CreateLogPreserves ==
    ASSUME IInv, NEW r \in Request, CreateLog(r)
    PROVE  IInv'
<1> USE DeliveryAssumption, NoneIsNoRow DEF IInv, TypeOK, tables
<1>1. TypeOK'
  BY DEF CreateLog, Goto, Finish, JobsOf, PayloadOf, Delivery, LogRow, LogStatus, Stage,
         Reply
<1>2. OriginsKnown'
  BY DEF CreateLog, Goto, Finish, Known, JobsOf, PayloadOf, Delivery, OriginsKnown
<1>3. PathsSeparate'
  BY DEF CreateLog, Goto, Finish, Owner, JobsOf, IsPing, PayloadOf, PathsSeparate
<1>4. OneOwnerPerDelivery'
  BY DEF CreateLog, Goto, Finish, Owner, JobsOf, PayloadOf, LogRow, LogStatus,
         OneOwnerPerDelivery, OwnerHoldsRow
<1>5. OwnerHoldsRow'
  BY DEF CreateLog, Goto, Finish, Owner, JobsOf, PayloadOf, Delivery, LogRow, LogStatus,
         OwnerHoldsRow
<1>6. FreshOrRefused'
  BY DEF CreateLog, Goto, Finish, JobsOf, PayloadOf, FreshOrRefused
<1>7. HandlerRunsFresh'
  BY DEF CreateLog, Goto, Finish, JobsOf, PayloadOf, LogRow, LogStatus, FreshOrRefused,
         HandlerRunsFresh
<1>8. JobsAccounted'
  BY DEF CreateLog, Goto, Finish, JobsOf, PayloadOf, JobsAccounted
<1>9. RecordMeansQueued'
  BY DEF CreateLog, Goto, Finish, JobsOf, PayloadOf, Delivery, RecordMeansQueued
<1>10. AcknowledgedMeansQueued'
  BY DEF CreateLog, Goto, Finish, JobsOf, PayloadOf, AcknowledgedMeansQueued
<1>11. RecordsDated'
  BY DEF CreateLog, Goto, Finish, JobsOf, PayloadOf, Delivery, RecordsDated
<1>12. QED
  BY <1>1, <1>2, <1>3, <1>4, <1>5, <1>6, <1>7, <1>8, <1>9, <1>10, <1>11

\* A job moves from 'still to add' to 'accepted'.
LEMMA EnqueueJobPreserves ==
    ASSUME IInv, NEW r \in Request, NEW j \in Job, EnqueueJob(r, j)
    PROVE  IInv'
<1> USE DeliveryAssumption, NoneIsNoRow DEF IInv, TypeOK, tables
<1>1. TypeOK'
  BY DEF EnqueueJob, Delivery, LogRow, LogStatus, Stage, Reply
<1>2. OriginsKnown'
  BY DEF EnqueueJob, Known, Delivery, OriginsKnown
<1>3. PathsSeparate'
  BY DEF EnqueueJob, Owner, IsPing, PayloadOf, PathsSeparate
<1>4. OneOwnerPerDelivery'
  BY DEF EnqueueJob, Owner, OneOwnerPerDelivery
<1>5. OwnerHoldsRow'
  BY DEF EnqueueJob, Owner, Delivery, OwnerHoldsRow
<1>6. FreshOrRefused'
  BY DEF EnqueueJob, FreshOrRefused
<1>7. HandlerRunsFresh'
  BY DEF EnqueueJob, HandlerRunsFresh
<1>8. JobsAccounted'
  BY DEF EnqueueJob, JobsOf, PayloadOf, JobsAccounted
<1>9. RecordMeansQueued'
  BY DEF EnqueueJob, JobsOf, PayloadOf, Delivery, RecordMeansQueued
<1>10. AcknowledgedMeansQueued'
  BY DEF EnqueueJob, JobsOf, PayloadOf, AcknowledgedMeansQueued
<1>11. RecordsDated'
  BY DEF EnqueueJob, Delivery, RecordsDated
<1>12. QED
  BY <1>1, <1>2, <1>3, <1>4, <1>5, <1>6, <1>7, <1>8, <1>9, <1>10, <1>11

\* The handler returns only when nothing is left to add.
LEMMA HandlerReturnsPreserves ==
    ASSUME IInv, NEW r \in Request, HandlerReturns(r)
    PROVE  IInv'
<1> USE DeliveryAssumption, NoneIsNoRow DEF IInv, TypeOK, tables
<1>1. TypeOK'
  BY DEF HandlerReturns, Goto, Delivery, LogRow, LogStatus, Stage, Reply
<1>2. OriginsKnown'
  BY DEF HandlerReturns, Goto, Known, Delivery, OriginsKnown
<1>3. PathsSeparate'
  BY DEF HandlerReturns, Goto, Owner, IsPing, PayloadOf, PathsSeparate
<1>4. OneOwnerPerDelivery'
  BY DEF HandlerReturns, Goto, Owner, OneOwnerPerDelivery
<1>5. OwnerHoldsRow'
  BY DEF HandlerReturns, Goto, Owner, Delivery, OwnerHoldsRow
<1>6. FreshOrRefused'
  BY DEF HandlerReturns, Goto, FreshOrRefused
<1>7. HandlerRunsFresh'
  BY DEF HandlerReturns, Goto, HandlerRunsFresh
<1>8. JobsAccounted'
  BY DEF HandlerReturns, Goto, JobsOf, PayloadOf, JobsAccounted
<1>9. RecordMeansQueued'
  BY DEF HandlerReturns, Goto, JobsOf, PayloadOf, Delivery, RecordMeansQueued
<1>10. AcknowledgedMeansQueued'
  BY DEF HandlerReturns, Goto, JobsOf, PayloadOf, AcknowledgedMeansQueued
<1>11. RecordsDated'
  BY DEF HandlerReturns, Goto, Delivery, RecordsDated
<1>12. QED
  BY <1>1, <1>2, <1>3, <1>4, <1>5, <1>6, <1>7, <1>8, <1>9, <1>10, <1>11

\* A throwing handler goes to the catch block with its row PENDING.
LEMMA HandlerThrowsPreserves ==
    ASSUME IInv, NEW r \in Request, HandlerThrows(r)
    PROVE  IInv'
<1> USE DeliveryAssumption, NoneIsNoRow DEF IInv, TypeOK, tables
<1>1. TypeOK'
  BY DEF HandlerThrows, Goto, Delivery, LogRow, LogStatus, Stage, Reply
<1>2. OriginsKnown'
  BY DEF HandlerThrows, Goto, Known, Delivery, OriginsKnown
<1>3. PathsSeparate'
  BY DEF HandlerThrows, Goto, Owner, IsPing, PayloadOf, PathsSeparate
<1>4. OneOwnerPerDelivery'
  BY DEF HandlerThrows, Goto, Owner, OneOwnerPerDelivery
<1>5. OwnerHoldsRow'
  BY DEF HandlerThrows, Goto, Owner, Delivery, OwnerHoldsRow
<1>6. FreshOrRefused'
  BY DEF HandlerThrows, Goto, FreshOrRefused
<1>7. HandlerRunsFresh'
  BY DEF HandlerThrows, Goto, HandlerRunsFresh
<1>8. JobsAccounted'
  BY DEF HandlerThrows, Goto, JobsOf, PayloadOf, JobsAccounted
<1>9. RecordMeansQueued'
  BY DEF HandlerThrows, Goto, JobsOf, PayloadOf, Delivery, RecordMeansQueued
<1>10. AcknowledgedMeansQueued'
  BY DEF HandlerThrows, Goto, JobsOf, PayloadOf, AcknowledgedMeansQueued
<1>11. RecordsDated'
  BY DEF HandlerThrows, Goto, Delivery, HandlerRunsFresh, RecordsDated
<1>12. QED
  BY <1>1, <1>2, <1>3, <1>4, <1>5, <1>6, <1>7, <1>8, <1>9, <1>10, <1>11

\* The only owner records its delivery; any waiting duplicate meets the row.
LEMMA MarkProcessedPreserves ==
    ASSUME IInv, NEW r \in Request, MarkProcessed(r)
    PROVE  IInv'
<1> USE DeliveryAssumption, NoneIsNoRow DEF IInv, TypeOK, tables
<1>1. TypeOK'
  BY DEF MarkProcessed, Goto, Delivery, LogRow, LogStatus, Stage, Reply
<1>2. OriginsKnown'
  BY DEF MarkProcessed, Goto, Known, Delivery, OriginsKnown
<1>3. PathsSeparate'
  BY DEF MarkProcessed, Goto, Owner, IsPing, PayloadOf, PathsSeparate
<1>4. OneOwnerPerDelivery'
  BY DEF MarkProcessed, Goto, Owner, OneOwnerPerDelivery
<1>5. OwnerHoldsRow'
  BY DEF MarkProcessed, Goto, Owner, Delivery, OwnerHoldsRow
<1>6. FreshOrRefused'
  BY DEF MarkProcessed, Goto, Owner, JobsOf, PayloadOf, Delivery, OwnerHoldsRow,
         FreshOrRefused
<1>7. HandlerRunsFresh'
  BY DEF MarkProcessed, Goto, Owner, JobsOf, PayloadOf, Delivery, OneOwnerPerDelivery,
         HandlerRunsFresh
<1>8. JobsAccounted'
  BY DEF MarkProcessed, Goto, JobsOf, PayloadOf, JobsAccounted
<1>9. RecordMeansQueued'
  BY DEF MarkProcessed, Goto, Owner, JobsOf, PayloadOf, Delivery, JobsAccounted,
         RecordMeansQueued
<1>10. AcknowledgedMeansQueued'
  BY DEF MarkProcessed, Goto, JobsOf, PayloadOf, AcknowledgedMeansQueued
<1>11. RecordsDated'
  BY DEF MarkProcessed, Goto, Delivery, HandlerRunsFresh, RecordsDated
<1>12. QED
  BY <1>1, <1>2, <1>3, <1>4, <1>5, <1>6, <1>7, <1>8, <1>9, <1>10, <1>11

\* The row turns SUCCESS under its record.
LEMMA LogSuccessPreserves ==
    ASSUME IInv, NEW r \in Request, LogSuccess(r)
    PROVE  IInv'
<1> USE DeliveryAssumption, NoneIsNoRow DEF IInv, TypeOK, tables
<1>1. TypeOK'
  BY DEF LogSuccess, Goto, Finish, Delivery, LogRow, LogStatus, Stage, Reply
<1>2. OriginsKnown'
  BY DEF LogSuccess, Goto, Finish, Known, Delivery, OriginsKnown
<1>3. PathsSeparate'
  BY DEF LogSuccess, Goto, Finish, Owner, IsPing, PayloadOf, PathsSeparate
<1>4. OneOwnerPerDelivery'
  BY DEF LogSuccess, Goto, Finish, Owner, OneOwnerPerDelivery
<1>5. OwnerHoldsRow'
  BY DEF LogSuccess, Goto, Finish, Owner, Delivery, LogRow, LogStatus,
         OneOwnerPerDelivery, OwnerHoldsRow
<1>6. FreshOrRefused'
  BY DEF LogSuccess, Goto, Finish, Delivery, LogRow, LogStatus, FreshOrRefused
<1>7. HandlerRunsFresh'
  BY DEF LogSuccess, Goto, Finish, HandlerRunsFresh
<1>8. JobsAccounted'
  BY DEF LogSuccess, Goto, Finish, JobsOf, PayloadOf, JobsAccounted
<1>9. RecordMeansQueued'
  BY DEF LogSuccess, Goto, Finish, JobsOf, PayloadOf, Delivery, RecordMeansQueued
<1>10. AcknowledgedMeansQueued'
  BY DEF LogSuccess, Goto, Finish, JobsOf, PayloadOf, Delivery, LogRow, LogStatus,
         JobsAccounted, AcknowledgedMeansQueued
<1>11. RecordsDated'
  BY DEF LogSuccess, Goto, Finish, Delivery, LogRow, LogStatus, OwnerHoldsRow, RecordsDated
<1>12. QED
  BY <1>1, <1>2, <1>3, <1>4, <1>5, <1>6, <1>7, <1>8, <1>9, <1>10, <1>11

\* Only the owner's own row turns FAILED.
LEMMA LogFailedPreserves ==
    ASSUME IInv, NEW r \in Request, LogFailed(r)
    PROVE  IInv'
<1> USE DeliveryAssumption, NoneIsNoRow DEF IInv, TypeOK, tables
<1>1. TypeOK'
  BY DEF LogFailed, Finish, Unsettled, Delivery, LogRow, LogStatus, Stage, Reply
<1>2. OriginsKnown'
  BY DEF LogFailed, Finish, Known, Delivery, OriginsKnown
<1>3. PathsSeparate'
  BY DEF LogFailed, Finish, Owner, IsPing, PayloadOf, PathsSeparate
<1>4. OneOwnerPerDelivery'
  BY DEF LogFailed, Finish, Owner, OneOwnerPerDelivery
<1>5. OwnerHoldsRow'
  BY DEF LogFailed, Finish, Owner, Delivery, LogRow, LogStatus, OneOwnerPerDelivery,
         OwnerHoldsRow
<1>6. FreshOrRefused'
  BY DEF LogFailed, Finish, Delivery, LogRow, LogStatus, FreshOrRefused
<1>7. HandlerRunsFresh'
  BY DEF LogFailed, Finish, HandlerRunsFresh
<1>8. JobsAccounted'
  BY DEF LogFailed, Finish, JobsOf, PayloadOf, JobsAccounted
<1>9. RecordMeansQueued'
  BY DEF LogFailed, Finish, JobsOf, PayloadOf, Delivery, RecordMeansQueued
<1>10. AcknowledgedMeansQueued'
  BY DEF LogFailed, Finish, JobsOf, PayloadOf, AcknowledgedMeansQueued
<1>11. RecordsDated'
  BY DEF LogFailed, Finish, Delivery, LogRow, LogStatus, RecordsDated
<1>12. QED
  BY <1>1, <1>2, <1>3, <1>4, <1>5, <1>6, <1>7, <1>8, <1>9, <1>10, <1>11

\* A crash only drops a request.
LEMMA CrashPreserves ==
    ASSUME IInv, NEW r \in Request, Crash(r)
    PROVE  IInv'
<1> USE DeliveryAssumption, NoneIsNoRow DEF IInv, TypeOK, tables
<1>1. TypeOK'
  BY DEF Crash, Owner, Unsettled, Delivery, LogRow, LogStatus, Stage, Reply
<1>2. OriginsKnown'
  BY DEF Crash, Known, Delivery, OriginsKnown
<1>3. PathsSeparate'
  BY DEF Crash, Owner, IsPing, PayloadOf, PathsSeparate
<1>4. OneOwnerPerDelivery'
  BY DEF Crash, Owner, OneOwnerPerDelivery
<1>5. OwnerHoldsRow'
  BY DEF Crash, Owner, Delivery, OwnerHoldsRow
<1>6. FreshOrRefused'
  BY DEF Crash, FreshOrRefused
<1>7. HandlerRunsFresh'
  BY DEF Crash, HandlerRunsFresh
<1>8. JobsAccounted'
  BY DEF Crash, JobsOf, PayloadOf, JobsAccounted
<1>9. RecordMeansQueued'
  BY DEF Crash, JobsOf, PayloadOf, Delivery, RecordMeansQueued
<1>10. AcknowledgedMeansQueued'
  BY DEF Crash, JobsOf, PayloadOf, AcknowledgedMeansQueued
<1>11. RecordsDated'
  BY DEF Crash, Delivery, RecordsDated
<1>12. QED
  BY <1>1, <1>2, <1>3, <1>4, <1>5, <1>6, <1>7, <1>8, <1>9, <1>10, <1>11

\* Only records older than the retention go, so a success loses its record late.
LEMMA CleanupIdempotencyPreserves ==
    ASSUME IInv, CleanupIdempotency
    PROVE  IInv'
<1> USE DeliveryAssumption, NoneIsNoRow DEF IInv, TypeOK, tables
<1>1. TypeOK'
  BY DEF CleanupIdempotency, Delivery, LogRow, LogStatus, Stage, Reply
<1>2. OriginsKnown'
  BY DEF CleanupIdempotency, Known, Delivery, OriginsKnown
<1>3. PathsSeparate'
  BY DEF CleanupIdempotency, Owner, IsPing, PayloadOf, Delivery, PathsSeparate
<1>4. OneOwnerPerDelivery'
  BY DEF CleanupIdempotency, Owner, Delivery, OneOwnerPerDelivery
<1>5. OwnerHoldsRow'
  BY DEF CleanupIdempotency, Owner, Delivery, OwnerHoldsRow
<1>6. FreshOrRefused'
  BY DEF CleanupIdempotency, Delivery, FreshOrRefused
<1>7. HandlerRunsFresh'
  BY DEF CleanupIdempotency, Delivery, HandlerRunsFresh
<1>8. JobsAccounted'
  BY DEF CleanupIdempotency, JobsOf, PayloadOf, Delivery, JobsAccounted
<1>9. RecordMeansQueued'
  BY DEF CleanupIdempotency, JobsOf, PayloadOf, Delivery, RecordMeansQueued
<1>10. AcknowledgedMeansQueued'
  BY DEF CleanupIdempotency, JobsOf, PayloadOf, Delivery, AcknowledgedMeansQueued
<1>11. RecordsDated'
  BY DEF CleanupIdempotency, Delivery, LogRow, RecordsDated
<1>12. QED
  BY <1>1, <1>2, <1>3, <1>4, <1>5, <1>6, <1>7, <1>8, <1>9, <1>10, <1>11

\* Only old rows go: never the row of a request under way.
LEMMA CleanupLogsPreserves ==
    ASSUME IInv, CleanupLogs
    PROVE  IInv'
<1> USE DeliveryAssumption, NoneIsNoRow DEF IInv, TypeOK, tables
<1>1. TypeOK'
  BY DEF CleanupLogs, Delivery, LogRow, LogStatus, Stage, Reply
<1>2. OriginsKnown'
  BY DEF CleanupLogs, Known, Delivery, OriginsKnown
<1>3. PathsSeparate'
  BY DEF CleanupLogs, Owner, IsPing, PayloadOf, Delivery, PathsSeparate
<1>4. OneOwnerPerDelivery'
  BY DEF CleanupLogs, Owner, Delivery, OneOwnerPerDelivery
<1>5. OwnerHoldsRow'
  BY DEF CleanupLogs, Owner, Delivery, OwnerHoldsRow
<1>6. FreshOrRefused'
  BY DEF CleanupLogs, Delivery, FreshOrRefused
<1>7. HandlerRunsFresh'
  BY DEF CleanupLogs, Delivery, HandlerRunsFresh
<1>8. JobsAccounted'
  BY DEF CleanupLogs, JobsOf, PayloadOf, Delivery, JobsAccounted
<1>9. RecordMeansQueued'
  BY DEF CleanupLogs, JobsOf, PayloadOf, Delivery, RecordMeansQueued
<1>10. AcknowledgedMeansQueued'
  BY DEF CleanupLogs, JobsOf, PayloadOf, Delivery, AcknowledgedMeansQueued
<1>11. RecordsDated'
  BY DEF CleanupLogs, Delivery, RecordsDated
<1>12. QED
  BY <1>1, <1>2, <1>3, <1>4, <1>5, <1>6, <1>7, <1>8, <1>9, <1>10, <1>11

\* All rows go, and no request can insert one any more.
LEMMA DisconnectAccountPreserves ==
    ASSUME IInv, DisconnectAccount
    PROVE  IInv'
<1> USE DeliveryAssumption, NoneIsNoRow DEF IInv, TypeOK, tables
<1>1. TypeOK'
  BY DEF DisconnectAccount, Delivery, LogRow, LogStatus, Stage, Reply
<1>2. OriginsKnown'
  BY DEF DisconnectAccount, Known, Delivery, OriginsKnown
<1>3. PathsSeparate'
  BY DEF DisconnectAccount, Owner, IsPing, PayloadOf, Delivery, PathsSeparate
<1>4. OneOwnerPerDelivery'
  BY DEF DisconnectAccount, Owner, Delivery, OneOwnerPerDelivery
<1>5. OwnerHoldsRow'
  BY DEF DisconnectAccount, Owner, Delivery, OwnerHoldsRow
<1>6. FreshOrRefused'
  BY DEF DisconnectAccount, Delivery, FreshOrRefused
<1>7. HandlerRunsFresh'
  BY DEF DisconnectAccount, Delivery, HandlerRunsFresh
<1>8. JobsAccounted'
  BY DEF DisconnectAccount, JobsOf, PayloadOf, Delivery, JobsAccounted
<1>9. RecordMeansQueued'
  BY DEF DisconnectAccount, JobsOf, PayloadOf, Delivery, RecordMeansQueued
<1>10. AcknowledgedMeansQueued'
  BY DEF DisconnectAccount, JobsOf, PayloadOf, Delivery, AcknowledgedMeansQueued
<1>11. RecordsDated'
  BY DEF DisconnectAccount, Delivery, RecordsDated
<1>12. QED
  BY <1>1, <1>2, <1>3, <1>4, <1>5, <1>6, <1>7, <1>8, <1>9, <1>10, <1>11

\* Nothing is in flight.
LEMMA ReconnectAccountPreserves ==
    ASSUME IInv, ReconnectAccount
    PROVE  IInv'
<1> USE DeliveryAssumption, NoneIsNoRow DEF IInv, TypeOK, tables
<1>1. TypeOK'
  BY DEF ReconnectAccount, Delivery, LogRow, LogStatus, Stage, Reply, Quiet
<1>2. OriginsKnown'
  BY DEF ReconnectAccount, Known, Delivery, Quiet, OriginsKnown
<1>3. PathsSeparate'
  BY DEF ReconnectAccount, Owner, IsPing, PayloadOf, Quiet, PathsSeparate
<1>4. OneOwnerPerDelivery'
  BY DEF ReconnectAccount, Owner, Quiet, OneOwnerPerDelivery
<1>5. OwnerHoldsRow'
  BY DEF ReconnectAccount, Owner, Delivery, Quiet, OwnerHoldsRow
<1>6. FreshOrRefused'
  BY DEF ReconnectAccount, Quiet, FreshOrRefused
<1>7. HandlerRunsFresh'
  BY DEF ReconnectAccount, Quiet, HandlerRunsFresh
<1>8. JobsAccounted'
  BY DEF ReconnectAccount, JobsOf, PayloadOf, Quiet, JobsAccounted
<1>9. RecordMeansQueued'
  BY DEF ReconnectAccount, JobsOf, PayloadOf, Delivery, Quiet, RecordMeansQueued
<1>10. AcknowledgedMeansQueued'
  BY DEF ReconnectAccount, JobsOf, PayloadOf, Quiet, AcknowledgedMeansQueued
<1>11. RecordsDated'
  BY DEF ReconnectAccount, Delivery, Quiet, RecordsDated
<1>12. QED
  BY <1>1, <1>2, <1>3, <1>4, <1>5, <1>6, <1>7, <1>8, <1>9, <1>10, <1>11

\* Nothing is in flight, and rows only get older.
LEMMA NextDayPreserves ==
    ASSUME IInv, NextDay
    PROVE  IInv'
<1> USE DeliveryAssumption, NoneIsNoRow DEF IInv, TypeOK, tables
<1>1. TypeOK'
  BY DEF NextDay, Delivery, LogRow, LogStatus, Stage, Reply, Quiet
<1>2. OriginsKnown'
  BY DEF NextDay, Known, Delivery, Quiet, OriginsKnown
<1>3. PathsSeparate'
  BY DEF NextDay, Owner, IsPing, PayloadOf, Quiet, PathsSeparate
<1>4. OneOwnerPerDelivery'
  BY DEF NextDay, Owner, Quiet, OneOwnerPerDelivery
<1>5. OwnerHoldsRow'
  BY DEF NextDay, Owner, Delivery, Quiet, OwnerHoldsRow
<1>6. FreshOrRefused'
  BY DEF NextDay, Quiet, FreshOrRefused
<1>7. HandlerRunsFresh'
  BY DEF NextDay, Quiet, HandlerRunsFresh
<1>8. JobsAccounted'
  BY DEF NextDay, JobsOf, PayloadOf, Quiet, JobsAccounted
<1>9. RecordMeansQueued'
  BY DEF NextDay, JobsOf, PayloadOf, Delivery, Quiet, RecordMeansQueued
<1>10. AcknowledgedMeansQueued'
  BY DEF NextDay, JobsOf, PayloadOf, Quiet, AcknowledgedMeansQueued
<1>11. RecordsDated'
  BY DEF NextDay, Delivery, LogRow, Quiet, RecordsDated
<1>12. QED
  BY <1>1, <1>2, <1>3, <1>4, <1>5, <1>6, <1>7, <1>8, <1>9, <1>10, <1>11


\* A step that changes nothing preserves everything.
LEMMA StutterPreserves ==
    ASSUME IInv, UNCHANGED vars
    PROVE  IInv'
<1> USE DEF vars
<1>1. TypeOK' /\ OriginsKnown' /\ PathsSeparate' /\ OneOwnerPerDelivery' /\ OwnerHoldsRow'
  BY DEF IInv, TypeOK, OriginsKnown, Known, PathsSeparate, IsPing, PayloadOf,
         OneOwnerPerDelivery, OwnerHoldsRow, Owner
<1>2. FreshOrRefused' /\ HandlerRunsFresh' /\ JobsAccounted' /\ RecordMeansQueued'
  BY DEF IInv, FreshOrRefused, HandlerRunsFresh, JobsAccounted, RecordMeansQueued,
         JobsOf, PayloadOf
<1>3. AcknowledgedMeansQueued' /\ RecordsDated'
  BY DEF IInv, AcknowledgedMeansQueued, JobsOf, PayloadOf, RecordsDated
<1>4. QED
  BY <1>1, <1>2, <1>3 DEF IInv

\* Every step preserves the inductive invariant.
LEMMA NextPreserves == IInv /\ [Next]_vars => IInv'
<1> SUFFICES ASSUME IInv, [Next]_vars PROVE IInv'
  OBVIOUS
<1>1. CASE \E r \in Request, d \in Delivery : Receive(r, d)
  BY <1>1, ReceivePreserves
<1>2. CASE \E r \in Request, d \in Delivery, x \in RetryId : ManualRetry(r, d, x)
  BY <1>2, ManualRetryPreserves
<1>3. CASE \E r \in Request : Process(r) \/ Crash(r)
  <2> PICK r \in Request : Process(r) \/ Crash(r)
    BY <1>3
  <2> QED
    BY IsProcessedPreserves, GetCachedResultPreserves, PingPreserves, AuthorizePreserves,
       CreateLogPreserves, EnqueueJobPreserves, HandlerReturnsPreserves,
       HandlerThrowsPreserves, MarkProcessedPreserves, LogSuccessPreserves,
       LogFailedPreserves, CrashPreserves DEF Process
<1>4. CASE CleanupIdempotency \/ CleanupLogs
  BY <1>4, CleanupIdempotencyPreserves, CleanupLogsPreserves
<1>5. CASE DisconnectAccount \/ ReconnectAccount \/ NextDay
  BY <1>5, DisconnectAccountPreserves, ReconnectAccountPreserves, NextDayPreserves
<1>6. CASE UNCHANGED vars
  BY <1>6, StutterPreserves
<1>7. QED
  BY <1>1, <1>2, <1>3, <1>4, <1>5, <1>6 DEF Next

\* The inductive invariant holds throughout every behaviour.
THEOREM Invariance == Spec => []IInv
BY InitEstablishes, NextPreserves, PTL DEF Spec

\* Type correctness.
THEOREM TypeCorrect == Spec => []TypeOK
<1>1. IInv => TypeOK
  BY DEF IInv
<1>2. QED
  BY <1>1, Invariance, PTL

\* However many overlapping requests carry one delivery id, at most one of them runs
\* the event handler.
THEOREM OneOwner == Spec => []OneOwnerPerDelivery
<1>1. IInv => OneOwnerPerDelivery
  BY DEF IInv
<1>2. QED
  BY <1>1, Invariance, PTL

\* The handler never runs for a delivery on record, so recording it cannot collide.
THEOREM FreshHandler == Spec => []HandlerRunsFresh
<1>1. IInv => HandlerRunsFresh
  BY DEF IInv
<1>2. QED
  BY <1>1, Invariance, PTL

\* What is recorded as processed was queued in full.
THEOREM RecordedIsQueued == Spec => []RecordMeansQueued
<1>1. IInv => RecordMeansQueued
  BY DEF IInv
<1>2. QED
  BY <1>1, Invariance, PTL

\* What is acknowledged to GitHub was queued in full: GitHub will not send it again.
THEOREM AcknowledgedIsQueued == Spec => []AcknowledgedMeansQueued
<1>1. IInv => AcknowledgedMeansQueued
  BY DEF IInv
<1>2. QED
  BY <1>1, Invariance, PTL

\* A SUCCESS row is backed by its idempotency record while records are kept.
THEOREM SuccessOnRecord == Spec => []SuccessIsOnRecord
<1>1. IInv => SuccessIsOnRecord
  BY DEF IInv, RecordsDated, SuccessIsOnRecord
<1>2. QED
  BY <1>1, Invariance, PTL

\* Only an owner writes a row that exists, and the row of one that is still to write
\* SUCCESS is PENDING.
LEMMA StepKeepsSuccess ==
    ASSUME IInv, Next, NEW d \in Delivery,
           log[d] # None, log[d].status = "SUCCESS", log'[d] # None,
           ~ \E r \in Request : pc[r] = "logFailed" /\ rid[r] = d
    PROVE  log'[d].status = "SUCCESS"
<1> USE NoneIsNoRow DEF IInv, TypeOK, tables
<1>1. CASE \E r \in Request : CreateLog(r)
  BY <1>1 DEF CreateLog
<1>2. CASE \E r \in Request : LogSuccess(r) \/ LogFailed(r)
  BY <1>2 DEF LogSuccess, LogFailed, OwnerHoldsRow, Owner, LogRow, LogStatus, Delivery
<1>3. CASE CleanupLogs \/ DisconnectAccount
  BY <1>3 DEF CleanupLogs, DisconnectAccount
<1>4. CASE UNCHANGED log
  BY <1>4
<1>5. QED
  BY <1>1, <1>2, <1>3, <1>4
     DEF Next, Process, Receive, ManualRetry, Start, IsProcessed, GetCachedResult, Ping,
         Authorize, EnqueueJob, HandlerReturns, HandlerThrows, MarkProcessed, Crash,
         CleanupIdempotency, ReconnectAccount, NextDay, Goto, Finish

\* The outcome of a successful delivery is overwritten by nobody else.
THEOREM SuccessFinal == Spec => SuccessIsFinal
<1>1. IInv /\ [Next]_vars =>
        [\A d \in Delivery :
            log[d] # None /\ log[d].status = "SUCCESS" /\ log'[d] # None
               => \/ log'[d].status = "SUCCESS"
                  \/ \E r \in Request : pc[r] = "logFailed" /\ rid[r] = d]_vars
  BY StepKeepsSuccess
<1>2. QED
  BY <1>1, Invariance, PTL DEF Spec, SuccessIsFinal

-----------------------------------------------------------------------------
(* The refinement: every step of the endpoint is a step of DeliveryBook, or  *)
(* none of its business.  The first three lemmas say how the set of running  *)
(* deliveries follows the stages of the requests.                            *)

\* Nobody becomes or ceases to be an owner.
LEMMA RunningSame ==
    ASSUME \A q \in Request : Owner(q)' = Owner(q) /\ (Owner(q) => rid'[q] = rid[q])
    PROVE  Running' = Running
BY DEF Running

\* One request becomes an owner.
LEMMA RunningGains ==
    ASSUME NEW r \in Request, ~Owner(r), Owner(r)', rid' = rid,
           \A q \in Request : q # r => Owner(q)' = Owner(q)
    PROVE  Running' = Running \cup {rid[r]}
BY DEF Running

\* One owner ceases to be one; no other holds its delivery.
LEMMA RunningLoses ==
    ASSUME OneOwnerPerDelivery, NEW r \in Request, Owner(r), ~Owner(r)', rid' = rid,
           \A q \in Request : q # r => Owner(q)' = Owner(q)
    PROVE  Running' = Running \ {rid[r]}
BY DEF Running, OneOwnerPerDelivery

\* A row written shows its status, and no other row changes.
LEMMA RowWritten ==
    ASSUME log \in [Delivery -> LogRow \cup {None}], NEW d \in Delivery,
           NEW s \in LogStatus, NEW t \in 0..MaxDay,
           log' = [log EXCEPT ![d] = [status |-> s, day |-> t]]
    PROVE  RowStatus' = [RowStatus EXCEPT ![d] = s]
<1>1. [status |-> s, day |-> t] \in LogRow
  BY DEF LogRow
<1>2. \A e \in Delivery : log'[e] = IF e = d THEN [status |-> s, day |-> t] ELSE log[e]
  OBVIOUS
<1>3. RowStatus' = [e \in Delivery |-> IF log'[e] = None THEN None ELSE log'[e].status]
  BY DEF RowStatus
<1>4. RowStatus' = [e \in Delivery |-> IF e = d THEN s ELSE RowStatus[e]]
  BY <1>1, <1>2, <1>3, NoneIsNoRow DEF RowStatus
<1>5. QED
  BY <1>4 DEF RowStatus

\* Likewise when only the status of a row is written.
LEMMA StatusWritten ==
    ASSUME log \in [Delivery -> LogRow \cup {None}], NEW d \in Delivery, log[d] # None,
           NEW s \in LogStatus, log' = [log EXCEPT ![d].status = s]
    PROVE  RowStatus' = [RowStatus EXCEPT ![d] = s]
<1>1. [log[d] EXCEPT !.status = s] \in LogRow /\ [log[d] EXCEPT !.status = s].status = s
  <2>1. log[d] \in LogRow
    OBVIOUS
  <2>2. QED
    BY <2>1 DEF LogRow
<1>2. \A e \in Delivery : log'[e] = IF e = d THEN [log[d] EXCEPT !.status = s] ELSE log[e]
  OBVIOUS
<1>3. RowStatus' = [e \in Delivery |-> IF log'[e] = None THEN None ELSE log'[e].status]
  BY DEF RowStatus
<1>4. RowStatus' = [e \in Delivery |-> IF e = d THEN s ELSE RowStatus[e]]
  BY <1>1, <1>2, <1>3, NoneIsNoRow DEF RowStatus
<1>5. QED
  BY <1>4 DEF RowStatus

\* Steps that move a request between stages without touching a table.
LEMMA MovesStutter ==
    ASSUME IInv, NEW r \in Request,
           \/ \E d \in Delivery : Receive(r, d)
           \/ IsProcessed(r) \/ GetCachedResult(r) \/ Authorize(r)
           \/ HandlerReturns(r) \/ HandlerThrows(r)
    PROVE  UNCHANGED Book!book
<1> USE DEF IInv, TypeOK, tables
<1>1. Running' = Running
  <2>1. \A q \in Request : Owner(q)' = Owner(q) /\ (Owner(q) => rid'[q] = rid[q])
    BY DEF Receive, Start, IsProcessed, GetCachedResult, Authorize, HandlerReturns,
           HandlerThrows, Goto, Finish, Owner
  <2>2. QED
    BY <2>1, RunningSame
<1>2. UNCHANGED tables
  BY DEF Receive, IsProcessed, GetCachedResult, Authorize, HandlerReturns, HandlerThrows
<1>3. QED
  BY <1>1, <1>2 DEF Book!book, Work, RowStatus, OnRecord, JobsOf, PayloadOf

\* The clock and a new connection concern no delivery.
LEMMA ClockStutters ==
    ASSUME NextDay \/ ReconnectAccount
    PROVE  UNCHANGED Book!book
<1>1. Running' = Running
  BY DEF NextDay, ReconnectAccount, Running, Owner
<1>2. QED
  BY <1>1 DEF NextDay, ReconnectAccount, Book!book, Work, RowStatus, OnRecord, JobsOf,
              PayloadOf

\* A minted id was never seen before, or stands for the same payload already.
LEMMA RetryMints ==
    ASSUME IInv, NEW r \in Request, NEW d \in Delivery, NEW x \in RetryId,
           ManualRetry(r, d, x)
    PROVE  Book!Mint(x, d) \/ UNCHANGED Book!book
<1> USE DeliveryAssumption, NoneIsNoRow DEF IInv, TypeOK, ManualRetry
<1>1. Running' = Running
  <2>1. \A q \in Request : Owner(q)' = Owner(q) /\ (Owner(q) => rid'[q] = rid[q])
    BY DEF Start, Owner
  <2>2. QED
    BY <2>1, RunningSame
<1>2. UNCHANGED <<RowStatus, OnRecord, added>>
  BY DEF RowStatus, OnRecord
<1>3. PayloadOf(d) \in GitHubId
  BY DEF OriginsKnown, Known, PayloadOf, Delivery
<1>4. CASE origin[x] = None
  <2>1. Book!Fresh(x)
    <3>1. x \notin Running
      BY <1>4 DEF Running, Owner, OriginsKnown, Known
    <3>2. log[x] = None /\ idem[x] = None
      BY <1>4 DEF OriginsKnown, Known, Delivery
    <3>3. QED
      BY <3>1, <3>2 DEF Book!Fresh, RowStatus, OnRecord, Delivery
  <2>2. Work' = [Work EXCEPT ![x] = Work[d]]
    <3>1. \A e \in Delivery : e # x => JobsOf(e)' = JobsOf(e)
      BY DEF JobsOf, PayloadOf
    <3>2. JobsOf(x)' = JobsOf(d)
      BY <1>3 DEF JobsOf, PayloadOf
    <3>3. QED
      BY <3>1, <3>2 DEF Work
  <2>3. RowStatus[d] # None
    BY DEF RowStatus, LogRow
  <2>4. QED
    BY <1>1, <1>2, <2>1, <2>2, <2>3 DEF Book!Mint
<1>5. CASE origin[x] # None
  <2>1. origin' = origin
    BY <1>5
  <2>2. Work' = Work
    BY <2>1 DEF Work, JobsOf, PayloadOf
  <2>3. QED
    BY <1>1, <1>2, <2>2 DEF Book!book
<1>6. QED
  BY <1>4, <1>5

\* What is left behind when the request of an owner ends.
LEMMA UnsettledRow ==
    ASSUME TypeOK, NEW r \in Request, Owner(r)
    PROVE  Unsettled(r) = {d \in {rid[r]} : RowStatus[d] = "PENDING"}
<1>1. rid[r] \in Delivery
  BY DEF TypeOK, Owner
<1>2. QED
  BY <1>1, NoneIsNoRow DEF Unsettled, RowStatus, LogStatus

\* A duplicate is refused by the row of its delivery; what gets past it is fresh.
LEMMA InsertBegins ==
    ASSUME IInv, NEW r \in Request, CreateLog(r)
    PROVE  \/ /\ Book!Begin(rid[r])
              /\ \A d \in Delivery : d # rid[r] => (d \in stranded' <=> d \in stranded)
              /\ rid[r] \in Running' <=> rid[r] \notin stranded'
           \/ UNCHANGED <<Book!book, stranded>>
<1> USE NoneIsNoRow DEF IInv, TypeOK, CreateLog
<1>1. rid[r] \in Delivery /\ Work' = Work /\ OnRecord' = OnRecord /\ added' = added
  BY DEF Work, OnRecord, JobsOf, PayloadOf
<1>2. CASE /\ log[rid[r]] = None /\ repoRow
           /\ log' = [log EXCEPT ![rid[r]] = [status |-> "PENDING", day |-> today]]
           /\ \/ Goto(r, "route") /\ stranded' = stranded \ {rid[r]}
              \/ Finish(r, "error") /\ stranded' = stranded \cup {rid[r]}
  <2>1. rid[r] \notin Running
    BY <1>2 DEF Running, OwnerHoldsRow
  <2>2. rid[r] \notin OnRecord
    BY <1>2 DEF OnRecord, FreshOrRefused
  <2>3. RowStatus[rid[r]] = None
    BY <1>1, <1>2 DEF RowStatus
  <2>4. RowStatus' = [RowStatus EXCEPT ![rid[r]] = "PENDING"]
    BY <1>1, <1>2, RowWritten DEF LogStatus
  <2>5. CASE Goto(r, "route") /\ stranded' = stranded \ {rid[r]}
    <3>1. Running' = Running \cup {rid[r]}
      BY <2>5, RunningGains DEF Goto, Owner
    <3>2. QED
      BY <1>1, <2>1, <2>2, <2>3, <2>4, <2>5, <3>1 DEF Book!Begin, Book!Fresh
  <2>6. CASE Finish(r, "error") /\ stranded' = stranded \cup {rid[r]}
    <3>1. Running' = Running
      BY <2>6, RunningSame DEF Finish, Owner
    <3>2. QED
      BY <1>1, <2>1, <2>2, <2>3, <2>4, <2>6, <3>1 DEF Book!Begin, Book!Fresh
  <2>7. QED
    BY <1>2, <2>5, <2>6
<1>3. CASE /\ UNCHANGED <<log, stranded>>
           /\ \E answer \in {"conflict", "error"} : Finish(r, answer)
  <2>1. Running' = Running
    BY <1>3, RunningSame DEF Finish, Owner
  <2>2. QED
    BY <1>1, <1>3, <2>1 DEF Book!book, RowStatus
<1>4. QED
  BY <1>2, <1>3

\* Only the handler of a delivery adds its jobs.
LEMMA EnqueueQueues ==
    ASSUME IInv, NEW r \in Request, NEW j \in Job, EnqueueJob(r, j)
    PROVE  Book!Queue(rid[r], j)
<1> USE DEF IInv, TypeOK, EnqueueJob
<1>1. rid[r] \in Delivery /\ UNCHANGED <<Work, RowStatus, OnRecord>>
  BY DEF Work, OnRecord, RowStatus, JobsOf, PayloadOf
<1>2. Running' = Running
  BY DEF Running, Owner
<1>3. rid[r] \in Running /\ rid[r] \notin OnRecord
  BY DEF Running, Owner, OnRecord, HandlerRunsFresh
<1>4. j \in Work[rid[r]]
  BY <1>1 DEF Work, JobsAccounted
<1>5. QED
  BY <1>1, <1>2, <1>3, <1>4 DEF Book!Queue

\* A ping asks for no jobs and is put on record without a handler.
LEMMA PingRecords ==
    ASSUME IInv, NEW r \in Request, Ping(r)
    PROVE  Book!Record(rid[r]) \/ UNCHANGED Book!book
<1> USE DeliveryAssumption DEF IInv, TypeOK, Ping
<1>1. rid[r] \in Delivery /\ UNCHANGED <<Work, RowStatus, added>>
  BY DEF Work, RowStatus, JobsOf, PayloadOf
<1>2. Running' = Running
  BY RunningSame DEF Finish, Owner
<1>3. CASE idem[rid[r]] = None /\ idem' = [idem EXCEPT ![rid[r]] = today]
  <2>1. rid[r] \notin OnRecord /\ OnRecord' = OnRecord \cup {rid[r]}
    BY <1>1, <1>3 DEF OnRecord
  <2>2. Work[rid[r]] = {}
    BY <1>1 DEF Work, JobsOf, PathsSeparate, IsPing
  <2>3. QED
    BY <1>1, <1>2, <2>1, <2>2 DEF Book!Record
<1>4. CASE UNCHANGED idem
  BY <1>1, <1>2, <1>4 DEF Book!book, OnRecord
<1>5. QED
  BY <1>3, <1>4

\* The handler has queued everything when its delivery is put on record.
LEMMA MarkRecords ==
    ASSUME IInv, NEW r \in Request, MarkProcessed(r)
    PROVE  Book!Record(rid[r]) \/ UNCHANGED Book!book
<1> USE DeliveryAssumption DEF IInv, TypeOK, MarkProcessed
<1>1. rid[r] \in Delivery /\ UNCHANGED <<Work, RowStatus, added>>
  BY DEF Work, RowStatus, JobsOf, PayloadOf
<1>2. Running' = Running
  BY RunningSame DEF Goto, Owner
<1>3. CASE idem[rid[r]] = None /\ idem' = [idem EXCEPT ![rid[r]] = today]
  <2>1. rid[r] \notin OnRecord /\ OnRecord' = OnRecord \cup {rid[r]}
    BY <1>1, <1>3 DEF OnRecord
  <2>2. rid[r] \in Running /\ Work[rid[r]] \subseteq added
    BY <1>1 DEF Running, Owner, Work, JobsAccounted
  <2>3. QED
    BY <1>1, <1>2, <2>1, <2>2 DEF Book!Record
<1>4. CASE UNCHANGED idem
  BY <1>1, <1>2, <1>4 DEF Book!book, OnRecord
<1>5. QED
  BY <1>3, <1>4

\* The handler of a delivery on record settles its row, or leaves that to the catch block.
LEMMA SuccessSucceeds ==
    ASSUME IInv, NEW r \in Request, LogSuccess(r)
    PROVE  Book!Succeed(rid[r]) \/ UNCHANGED Book!book
<1> USE DeliveryAssumption, NoneIsNoRow DEF IInv, TypeOK, LogSuccess
<1>1. rid[r] \in Delivery /\ UNCHANGED <<Work, OnRecord, added>>
  BY DEF Work, OnRecord, JobsOf, PayloadOf
<1>2. CASE /\ log[rid[r]] # None /\ log' = [log EXCEPT ![rid[r]].status = "SUCCESS"]
           /\ Finish(r, "ok") \/ Goto(r, "logFailed")
  <2>1. rid[r] \in Running /\ rid[r] \in OnRecord
    BY <1>1 DEF Running, Owner, OnRecord, RecordsDated
  <2>2. log[rid[r]].status = "PENDING"
    BY <1>1, <1>2 DEF Owner, OwnerHoldsRow
  <2>3. RowStatus[rid[r]] = "PENDING"
    BY <1>1, <1>2, <2>2 DEF RowStatus
  <2>4. Running' \in {Running \ {rid[r]}, Running}
    <3>1. CASE Finish(r, "ok")
      BY <3>1, RunningLoses DEF Finish, Owner
    <3>2. CASE Goto(r, "logFailed")
      BY <3>2, RunningSame DEF Goto, Owner
    <3>3. QED
      BY <1>2, <3>1, <3>2
  <2>5. RowStatus' = [RowStatus EXCEPT ![rid[r]] = "SUCCESS"]
    BY <1>1, <1>2, StatusWritten DEF LogStatus
  <2>6. QED
    BY <1>1, <2>1, <2>3, <2>4, <2>5 DEF Book!Succeed
<1>3. CASE UNCHANGED log /\ Goto(r, "logFailed")
  <2>1. Running' = Running
    BY <1>3, RunningSame DEF Goto, Owner
  <2>2. QED
    BY <1>1, <1>3, <2>1 DEF Book!book, RowStatus
<1>4. QED
  BY <1>2, <1>3

\* The catch block settles the row of its own delivery, if it can.
LEMMA FailureGivesUp ==
    ASSUME IInv, NEW r \in Request, LogFailed(r)
    PROVE  /\ Book!GiveUp(rid[r])
           /\ \/ /\ RowStatus' = [RowStatus EXCEPT ![rid[r]] = "FAILED"]
                 /\ RowStatus[rid[r]] # None /\ UNCHANGED stranded
              \/ UNCHANGED RowStatus /\ stranded' = stranded \cup Unsettled(r)
<1> USE DeliveryAssumption, NoneIsNoRow DEF IInv, TypeOK, LogFailed
<1>1. rid[r] \in Delivery /\ UNCHANGED <<Work, OnRecord, added>>
  BY DEF Work, OnRecord, JobsOf, PayloadOf
<1>2. rid[r] \in Running
  BY DEF Running, Owner
<1>3. Running' = Running \ {rid[r]}
  BY RunningLoses DEF Finish, Owner
<1>4. CASE /\ log[rid[r]] # None /\ log' = [log EXCEPT ![rid[r]].status = "FAILED"]
           /\ UNCHANGED stranded
  <2>1. RowStatus[rid[r]] # None
    BY <1>1, <1>4 DEF RowStatus, LogRow
  <2>2. RowStatus' = [RowStatus EXCEPT ![rid[r]] = "FAILED"]
    BY <1>1, <1>4, StatusWritten DEF LogStatus
  <2>3. QED
    BY <1>1, <1>2, <1>3, <1>4, <2>1, <2>2 DEF Book!GiveUp
<1>5. CASE UNCHANGED log /\ stranded' = stranded \cup Unsettled(r)
  BY <1>1, <1>2, <1>3, <1>5 DEF Book!GiveUp, RowStatus
<1>6. QED
  BY <1>4, <1>5

\* The death of an owner leaves its row as it is; that of another request is not noticed.
LEMMA CrashGivesUp ==
    ASSUME IInv, NEW r \in Request, Crash(r)
    PROVE  \/ /\ Book!GiveUp(rid[r]) /\ UNCHANGED RowStatus
              /\ stranded' = stranded \cup Unsettled(r) /\ Owner(r)
           \/ UNCHANGED <<Book!book, stranded>>
<1> USE DEF IInv, TypeOK, Crash
<1>1. UNCHANGED <<Work, RowStatus, OnRecord, added>>
  BY DEF Work, RowStatus, OnRecord, JobsOf, PayloadOf, tables
<1>2. CASE Owner(r)
  <2>1. rid[r] \in Running
    BY <1>2 DEF Running
  <2>2. Running' = Running \ {rid[r]}
    BY <1>2, RunningLoses DEF Owner
  <2>3. QED
    BY <1>1, <1>2, <2>1, <2>2 DEF Book!GiveUp
<1>3. CASE ~Owner(r)
  <2>1. Running' = Running
    BY <1>3, RunningSame DEF Owner
  <2>2. stranded' = stranded
    BY <1>3 DEF Unsettled
  <2>3. QED
    BY <1>1, <2>1, <2>2 DEF Book!book
<1>4. QED
  BY <1>2, <1>3

\* Retention counts in days, and what is under way is of today.
LEMMA CleanupsDrop ==
    ASSUME IInv, CleanupIdempotency \/ CleanupLogs
    PROVE  \E D \in SUBSET Delivery : Book!DropRows(D) \/ Book!DropRecords(D)
<1> USE DeliveryAssumption, NoneIsNoRow DEF IInv, TypeOK
<1>1. Work' = Work /\ Running' = Running /\ added' = added
  BY DEF CleanupIdempotency, CleanupLogs, Work, JobsOf, PayloadOf, Running, Owner
<1>2. CASE CleanupIdempotency
  <2> DEFINE D == {d \in Delivery : idem[d] # None /\ idem[d] + IdemRetention < today}
  <2>1. D \cap Running = {}
    <3>1. \A r \in Request : Owner(r) => idem[rid[r]] \in {None, today}
      BY DEF Owner, HandlerRunsFresh, RecordsDated
    <3>2. QED
      BY <3>1 DEF Running
  <2>2. OnRecord' = OnRecord \ D
    BY <1>2 DEF CleanupIdempotency, OnRecord
  <2>3. RowStatus' = RowStatus
    BY <1>2 DEF CleanupIdempotency, RowStatus
  <2>4. QED
    BY <1>1, <2>1, <2>2, <2>3 DEF Book!DropRecords
<1>3. CASE CleanupLogs
  <2> DEFINE D == {d \in Delivery : log[d] # None /\ log[d].day + LogRetention < today}
  <2>1. D \cap Running = {}
    BY DEF Running, OwnerHoldsRow
  <2>2. RowStatus' = [d \in Delivery |-> IF d \in D THEN None ELSE RowStatus[d]]
    BY <1>3 DEF CleanupLogs, RowStatus
  <2>3. OnRecord' = OnRecord
    BY <1>3 DEF CleanupLogs, OnRecord
  <2>4. QED
    BY <1>1, <2>1, <2>2, <2>3 DEF Book!DropRows
<1>4. QED
  BY <1>2, <1>3

\* The cascade takes every row, those under way included.
LEMMA DisconnectLoses ==
    ASSUME DisconnectAccount
    PROVE  Book!LoseRows
BY DEF DisconnectAccount, Book!LoseRows, Work, Running, RowStatus, OnRecord, Owner, JobsOf,
       PayloadOf

\* Whatever requests, crons and faults do, a reader of the two tables and of the queue
\* sees only steps of DeliveryBook.
THEOREM ImplementsBook == Spec => DeliverySpec
<1>1. Init => Book!Init
  <2> SUFFICES ASSUME Init PROVE Book!Init
    OBVIOUS
  <2> USE DeliveryAssumption DEF Init
  <2>1. Work \in [Delivery -> SUBSET Job]
    BY DEF Work, JobsOf
  <2>2. Running = {} /\ OnRecord = {} /\ RowStatus = [d \in Delivery |-> None]
    BY DEF Running, Owner, OnRecord, RowStatus
  <2>3. QED
    BY <2>1, <2>2 DEF Book!Init
<1>2. IInv /\ [Next]_vars => [Book!Next]_Book!book
  <2> SUFFICES ASSUME IInv, [Next]_vars PROVE Book!Next \/ UNCHANGED Book!book
    OBVIOUS
  <2>1. CASE \E r \in Request, d \in Delivery : Receive(r, d)
    BY <2>1, MovesStutter
  <2>2. CASE \E r \in Request, d \in Delivery, x \in RetryId : ManualRetry(r, d, x)
    BY <2>2, RetryMints DEF Book!Next
  <2>3. CASE \E r \in Request : Process(r) \/ Crash(r)
    <3> PICK r \in Request : Process(r) \/ Crash(r)
      BY <2>3
    <3>1. CASE IsProcessed(r) \/ GetCachedResult(r) \/ Authorize(r)
               \/ HandlerReturns(r) \/ HandlerThrows(r)
      BY <3>1, MovesStutter
    <3>2. CASE pc[r] # "idle" /\ ~(IsProcessed(r) \/ GetCachedResult(r) \/ Authorize(r)
               \/ HandlerReturns(r) \/ HandlerThrows(r))
      <4>1. rid[r] \in Delivery
        BY <3>2 DEF IInv, TypeOK
      <4>2. QED
        BY <3>2, <4>1, InsertBegins, EnqueueQueues, PingRecords, MarkRecords,
           SuccessSucceeds, FailureGivesUp, CrashGivesUp DEF Process, Book!Next
    <3>3. QED
      BY <3>1, <3>2 DEF Process, Crash, CreateLog, EnqueueJob, Ping, MarkProcessed,
                        LogSuccess, LogFailed
  <2>4. CASE CleanupIdempotency \/ CleanupLogs
    BY <2>4, CleanupsDrop DEF Book!Next
  <2>5. CASE DisconnectAccount
    BY <2>5, DisconnectLoses DEF Book!Next
  <2>6. CASE ReconnectAccount \/ NextDay
    BY <2>6, ClockStutters
  <2>7. CASE UNCHANGED vars
    BY <2>7 DEF vars, Book!book, Work, Running, RowStatus, OnRecord, Owner, JobsOf,
                PayloadOf
  <2>8. QED
    BY <2>1, <2>2, <2>3, <2>4, <2>5, <2>6, <2>7 DEF Next
<1>3. QED
  BY <1>1, <1>2, Invariance, PTL DEF Spec, DeliverySpec, Book!Spec

-----------------------------------------------------------------------------
(* Rows left PENDING: which deliveries run and what their rows say follows   *)
(* DeliveryBook, so the property needs no further invariant.                 *)

\* Most steps concern neither the rows nor who is running.
LEMMA UnconcernedKeepCause ==
    ASSUME PendingHasCause, UNCHANGED <<Running, RowStatus, stranded>>
    PROVE  PendingHasCause'
BY DEF PendingHasCause

\* A new row has a handler, or never gets one.
LEMMA InsertKeepsCause ==
    ASSUME IInv, PendingHasCause, NEW r \in Request, CreateLog(r)
    PROVE  PendingHasCause'
<1>1. CASE /\ Book!Begin(rid[r])
           /\ \A d \in Delivery : d # rid[r] => (d \in stranded' <=> d \in stranded)
           /\ rid[r] \in Running' <=> rid[r] \notin stranded'
  <2> SUFFICES ASSUME NEW d \in Delivery, RowStatus'[d] # None
               PROVE  RowStatus'[d] = "PENDING" /\ d \notin Running' <=> d \in stranded'
    BY DEF PendingHasCause
  <2>1. CASE d = rid[r]
    BY <1>1, <2>1 DEF Book!Begin, RowStatus
  <2>2. CASE d # rid[r]
    <3>1. RowStatus'[d] = RowStatus[d] /\ (d \in Running' <=> d \in Running)
      BY <1>1, <2>2 DEF Book!Begin, RowStatus
    <3>2. QED
      BY <1>1, <2>2, <3>1 DEF PendingHasCause
  <2>3. QED
    BY <2>1, <2>2
<1>2. CASE UNCHANGED <<Book!book, stranded>>
  BY <1>2, UnconcernedKeepCause DEF Book!book
<1>3. QED
  BY <1>1, <1>2, InsertBegins

\* A row that gets its outcome had a handler and was not left behind.
LEMMA SuccessKeepsCause ==
    ASSUME IInv, PendingHasCause, NEW r \in Request, LogSuccess(r)
    PROVE  PendingHasCause'
<1>1. stranded' = stranded
  BY DEF LogSuccess
<1>2. CASE Book!Succeed(rid[r])
  <2> SUFFICES ASSUME NEW d \in Delivery, RowStatus'[d] # None
               PROVE  RowStatus'[d] = "PENDING" /\ d \notin Running' <=> d \in stranded
    BY <1>1 DEF PendingHasCause
  <2>1. CASE d = rid[r]
    <3>1. RowStatus'[d] = "SUCCESS" /\ RowStatus[d] = "PENDING" /\ d \in Running
      BY <1>2, <2>1 DEF Book!Succeed, RowStatus
    <3>2. RowStatus[d] # None
      BY <3>1, NoneIsNoRow DEF LogStatus
    <3>3. QED
      BY <3>1, <3>2 DEF PendingHasCause
  <2>2. CASE d # rid[r]
    <3>1. RowStatus'[d] = RowStatus[d] /\ (d \in Running' <=> d \in Running)
      BY <1>2, <2>2 DEF Book!Succeed, RowStatus
    <3>2. QED
      BY <3>1 DEF PendingHasCause
  <2>3. QED
    BY <2>1, <2>2
<1>3. CASE UNCHANGED Book!book
  BY <1>1, <1>3, UnconcernedKeepCause DEF Book!book
<1>4. QED
  BY <1>2, <1>3, SuccessSucceeds

\* A row without an outcome is left behind when its handler ends, and only then.
LEMMA EndKeepsCause ==
    ASSUME IInv, PendingHasCause, NEW r \in Request, Owner(r), Book!GiveUp(rid[r]),
           \/ /\ RowStatus' = [RowStatus EXCEPT ![rid[r]] = "FAILED"]
              /\ RowStatus[rid[r]] # None /\ UNCHANGED stranded
           \/ UNCHANGED RowStatus /\ stranded' = stranded \cup Unsettled(r)
    PROVE  PendingHasCause'
<1> SUFFICES ASSUME NEW d \in Delivery, RowStatus'[d] # None
             PROVE  RowStatus'[d] = "PENDING" /\ d \notin Running' <=> d \in stranded'
  BY DEF PendingHasCause
<1>1. Unsettled(r) = {e \in {rid[r]} : RowStatus[e] = "PENDING"}
  BY UnsettledRow DEF IInv
<1>2. Running' = Running \ {rid[r]} /\ rid[r] \in Running
  BY DEF Book!GiveUp
<1>3. CASE d = rid[r]
  <2>1. RowStatus[d] # None => d \notin stranded
    BY <1>2, <1>3 DEF PendingHasCause
  <2>2. CASE RowStatus' = [RowStatus EXCEPT ![rid[r]] = "FAILED"]
             /\ RowStatus[rid[r]] # None /\ UNCHANGED stranded
    BY <1>3, <2>1, <2>2 DEF RowStatus
  <2>3. CASE UNCHANGED RowStatus /\ stranded' = stranded \cup Unsettled(r)
    BY <1>1, <1>2, <1>3, <2>1, <2>3
  <2>4. QED
    BY <2>2, <2>3
<1>4. CASE d # rid[r]
  <2>1. RowStatus'[d] = RowStatus[d] /\ (d \in stranded' <=> d \in stranded)
    BY <1>1, <1>4 DEF RowStatus
  <2>2. QED
    BY <1>2, <1>4, <2>1 DEF PendingHasCause
<1>5. QED
  BY <1>3, <1>4

\* A row that goes says nothing any more.
LEMMA DropKeepsCause ==
    ASSUME PendingHasCause, CleanupIdempotency \/ CleanupLogs \/ DisconnectAccount
    PROVE  PendingHasCause'
<1>1. Running' = Running /\ stranded' = stranded
  BY DEF CleanupIdempotency, CleanupLogs, DisconnectAccount, Running, Owner
<1>2. \A d \in Delivery : RowStatus'[d] \in {RowStatus[d], None}
  BY DEF CleanupIdempotency, CleanupLogs, DisconnectAccount, RowStatus
<1>3. QED
  BY <1>1, <1>2 DEF PendingHasCause

\* Every step keeps the account of the rows left behind.
LEMMA CauseKept == IInv /\ PendingHasCause /\ [Next]_vars => PendingHasCause'
<1> SUFFICES ASSUME IInv, PendingHasCause, [Next]_vars PROVE PendingHasCause'
  OBVIOUS
<1>1. CASE \E r \in Request, d \in Delivery : Receive(r, d)
  BY <1>1, MovesStutter, UnconcernedKeepCause DEF Receive, tables, Book!book
<1>2. CASE \E r \in Request, d \in Delivery, x \in RetryId : ManualRetry(r, d, x)
  BY <1>2, RetryMints, UnconcernedKeepCause DEF ManualRetry, Book!Mint, Book!book
<1>3. CASE \E r \in Request : Process(r) \/ Crash(r)
  <2> PICK r \in Request : Process(r) \/ Crash(r)
    BY <1>3
  <2>1. CASE IsProcessed(r) \/ GetCachedResult(r) \/ Authorize(r)
             \/ HandlerReturns(r) \/ HandlerThrows(r)
    <3>1. stranded' = stranded
      BY <2>1 DEF IsProcessed, GetCachedResult, Authorize, HandlerReturns, HandlerThrows,
                  tables
    <3>2. QED
      BY <2>1, <3>1, MovesStutter, UnconcernedKeepCause DEF Book!book
  <2>2. CASE Ping(r) \/ MarkProcessed(r)
    <3>1. stranded' = stranded
      BY <2>2 DEF Ping, MarkProcessed
    <3>2. QED
      BY <2>2, <3>1, PingRecords, MarkRecords, UnconcernedKeepCause
         DEF Book!Record, Book!book
  <2>3. CASE \E j \in Job : EnqueueJob(r, j)
    BY <2>3, EnqueueQueues, UnconcernedKeepCause DEF EnqueueJob, Book!Queue
  <2>4. CASE CreateLog(r)
    BY <2>4, InsertKeepsCause
  <2>5. CASE LogSuccess(r)
    BY <2>5, SuccessKeepsCause
  <2>6. CASE LogFailed(r)
    BY <2>6, FailureGivesUp, EndKeepsCause DEF LogFailed, Owner
  <2>7. CASE Crash(r)
    BY <2>7, CrashGivesUp, EndKeepsCause, UnconcernedKeepCause DEF Book!book
  <2>8. QED
    BY <2>1, <2>2, <2>3, <2>4, <2>5, <2>6, <2>7 DEF Process
<1>4. CASE CleanupIdempotency \/ CleanupLogs \/ DisconnectAccount
  BY <1>4, DropKeepsCause
<1>5. CASE ReconnectAccount \/ NextDay
  BY <1>5, ClockStutters, UnconcernedKeepCause DEF ReconnectAccount, NextDay, Book!book
<1>6. CASE UNCHANGED vars
  BY <1>6, UnconcernedKeepCause DEF vars, Running, RowStatus, Owner
<1>7. QED
  BY <1>1, <1>2, <1>3, <1>4, <1>5, <1>6 DEF Next

\* The PENDING rows nobody is handling are exactly those whose handling was cut short.
THEOREM PendingExplained == Spec => []PendingHasCause
<1>1. Init => PendingHasCause
  BY DEF Init, PendingHasCause, RowStatus
<1>2. QED
  BY <1>1, CauseKept, Invariance, PTL DEF Spec
=============================================================================
