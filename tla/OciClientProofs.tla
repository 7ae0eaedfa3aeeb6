--------------------------- MODULE OciClientProofs ---------------------------
(***************************************************************************)
(* Theorems about OciClient, for every lifetime and headroom of the        *)
(* tokens, every deadline and every number of resends.                     *)
(***************************************************************************)
EXTENDS OciClient, TLAPS

\* The credentials come before the token, and a new key next to an old token
\* means that the token is about to expire.
SignerInv ==
    /\ credentials = None => token = None
    /\ credentials # None /\ token # None /\ back = 0
         => credentials = token.session \/ token.left <= Headroom
    /\ pc = "token" => credentials # None
    /\ pc = "sent" => token # None /\ credentials # None
    /\ pc = "sent" /\ back = 0
         => credentials = token.session /\ token.left + age > Headroom

\* The request after a 401 does not find the token that was rejected.
RetryInv ==
    /\ retried /\ pc = "sign" => credentials = None
    /\ retried /\ pc = "sent" => renewed

\* How long a polling may have taken when a request is signed, and since then.
Before == WrTimeout - 1 + (IF retried THEN 2 * MaxRequest ELSE 0)

WaitInv ==
    /\ pc = "idle" => phase = "request" /\ waited = 0
    /\ pc = "sign" => age = 0 /\ waited <= Before
    /\ pc = "token" => waited <= Before + age
    /\ pc = "sent" => waited <= Before + MaxRequest + age
    /\ pc = "sleep" => waited + sleep <= WaitLimit

\* What OCI and its answer say of the update being made.
DoneInv ==
    /\ pc = "idle" => call = None
    /\ work # "none" => Updating
    /\ work = "SUCCEEDED" => done
    /\ reply \in {"ok", "SUCCEEDED"} /\ Updating => done

ClientInv == TypeOK /\ SignerInv /\ RetryInv /\ WaitInv /\ DoneInv

-----------------------------------------------------------------------------
(* Types.                                                                  *)

LEMMA Bounds ==
  /\ {HttpRetries, MaxRetryAfter, MaxRequest, Headroom, MaxBack, Lifetime} \subseteq Nat
  /\ WrTimeout \in Nat \ {0}
  /\ WaitLimit \in Nat
  /\ None \notin Value /\ Read \notin Value /\ None # Read
  BY ClientAssumption, SignerAssumption DEF WaitLimit

LEMMA ToSignType ==
  ASSUME TypeOK, NEW ph \in {"request", "poll"}, NEW again \in BOOLEAN, ToSign(ph, again)
  PROVE  /\ pc' \in Label /\ phase' \in {"request", "poll"} /\ retried' \in BOOLEAN
         /\ tries' \in 0..HttpRetries /\ reply' \in Reply /\ sleep' \in 0..MaxRetryAfter
         /\ age' \in 0..MaxRequest /\ renewed' \in BOOLEAN
  BY Bounds DEF ToSign, TypeOK, Label, Reply

LEMMA EndType ==
  ASSUME TypeOK, DoneInv, NEW outcome \in {"ok", "failed"}, End(outcome), UNCHANGED signerVars
  PROVE  TypeOK'
  <1>1. SignerTypeOK'
    BY DEF TypeOK, SignerTypeOK, signerVars
  <1>2. stray' \subseteq Value
    BY DEF End, TypeOK, DoneInv, Updating
  <1>3. answer' \in {"none", "ok", "failed"}
    BY DEF End, TypeOK, Updating
  <1>4. pc' \in Label /\ reply' \in Reply
    BY DEF End, Label, Reply
  <1>5. /\ tries' \in 0..HttpRetries /\ sleep' \in 0..MaxRetryAfter
        /\ age' \in 0..MaxRequest /\ waited' \in 0..WaitLimit + 1
    BY Bounds DEF End
  <1> QED
    BY <1>1, <1>2, <1>3, <1>4, <1>5, Bounds DEF End, TypeOK

LEMMA ClientType ==
  ASSUME ClientInv, Client
  PROVE  TypeOK'
  <1> USE Bounds DEF ClientInv
  <1>0. SignerTypeOK /\ TypeOK
    BY DEF TypeOK
  <1>1. CASE SignWithKeptToken
    BY <1>0, <1>1 DEF SignWithKeptToken, Sent, TypeOK, SignerTypeOK, signerVars, oci, ghosts, Label
  <1>2. CASE RenewCredentials
    <2>1. CASE Raise /\ UNCHANGED signerVars
      BY <2>1, EndType DEF Raise
    <2>2. CASE NewCredentials /\ pc' = "token"
                /\ UNCHANGED <<oci, call, phase, retried, tries, reply, sleep, age, waited,
                              renewed, ghosts>>
      BY <1>0, <2>2 DEF NewCredentials, TypeOK, SignerTypeOK, oci, ghosts, Label
    <2> QED
      BY <1>2, <2>1, <2>2 DEF RenewCredentials
  <1>3. CASE RenewToken
    <2>1. CASE Raise /\ UNCHANGED signerVars
      BY <2>1, EndType DEF Raise
    <2>2. CASE NewToken /\ Sent /\ renewed' = TRUE /\ UNCHANGED <<oci, ghosts>>
      <3>1. credentials \in Session
        BY <1>0, <1>3 DEF RenewToken, SignerInv, SignerTypeOK
      <3>2. token' \in Token
        BY <2>2, <3>1 DEF NewToken, Token
      <3> QED
        BY <1>0, <2>2, <3>2 DEF NewToken, Sent, TypeOK, SignerTypeOK, oci, ghosts, Label
    <2> QED
      BY <1>3, <2>1, <2>2 DEF RenewToken
  <1>4. CASE Resend
    <2>1. stray' \subseteq Value
      BY <1>0, <1>4 DEF Resend, LosesTrack, TypeOK, DoneInv, Updating
    <2>2. tries' \in 0..HttpRetries
      BY <1>0, <1>4 DEF Resend, RetriesLeft, TypeOK
    <2> QED
      BY <1>0, <1>4, <2>1, <2>2 DEF Resend, TypeOK, SignerTypeOK, signerVars, ghosts, Label, Reply
  <1>5. CASE NoAnswer \/ RaiseForStatus \/ Return \/ TimeOut
    BY <1>5, EndType DEF NoAnswer, RaiseForStatus, Return, TimeOut, Raise
  <1>6. CASE RetryWithNewToken
    <2>1. SignerTypeOK'
      BY <1>0, <1>6 DEF RetryWithNewToken, Invalidate, SignerTypeOK
    <2>2. phase \in {"request", "poll"} /\ ToSign(phase, TRUE)
      BY <1>0, <1>6 DEF RetryWithNewToken, TypeOK
    <2> QED
      BY <1>0, <1>6, <2>1, <2>2, ToSignType DEF RetryWithNewToken, TypeOK, oci, ghosts
  <1>7. CASE BeginPolling \/ PollAgain
    <2>1. SignerTypeOK'
      BY <1>0, <1>7 DEF BeginPolling, PollAgain, SignerTypeOK, signerVars
    <2>2. ToSign("poll", FALSE)
      BY <1>7 DEF BeginPolling, PollAgain
    <2>3. UNCHANGED <<oci, call, ghosts>> /\ waited' \in {0, waited}
      BY <1>7 DEF BeginPolling, PollAgain
    <2>4. waited' \in 0..WaitLimit + 1
      BY <1>0, <2>3 DEF TypeOK
    <2> QED
      BY <1>0, <2>1, <2>2, <2>3, <2>4, ToSignType DEF TypeOK, oci, ghosts
  <1>8. CASE Sleep
    BY <1>0, <1>8 DEF Sleep, TypeOK, SignerTypeOK, signerVars, oci, ghosts, Label, Reply
  <1> QED
    BY <1>1, <1>2, <1>3, <1>4, <1>5, <1>6, <1>7, <1>8 DEF Client

LEMMA EnvironmentType ==
  ASSUME ClientInv, Environment
  PROVE  TypeOK'
  <1> USE Bounds DEF ClientInv
  <1>0. SignerTypeOK /\ TypeOK
    BY DEF TypeOK
  <1>1. ASSUME NEW r \in Reply, Replies(r), UNCHANGED <<work, stray>>,
               store' \in Value \cup {None}, done' \in BOOLEAN
        PROVE  TypeOK'
    BY <1>0, <1>1 DEF Replies, TypeOK, SignerTypeOK, signerVars
  <1>2. CASE Reject
    BY <1>0, <1>1, <1>2 DEF Reject, oci, TypeOK, Reply
  <1>3. CASE Process
    <2>1. CASE Replies("refused") /\ UNCHANGED <<oci, done>>
      BY <1>0, <1>1, <2>1 DEF oci, TypeOK, Reply
    <2>2. CASE Replies("ok") /\ UNCHANGED <<oci, done>>
      BY <1>0, <1>1, <2>2 DEF oci, TypeOK, Reply
    <2>3. CASE Updating /\ Replies("ok") /\ Writes(call) /\ UNCHANGED <<work, stray>>
      BY <1>0, <1>1, <2>3 DEF Writes, Updating, TypeOK, Reply
    <2>4. CASE Replies("accepted") /\ work' = "running" /\ UNCHANGED <<store, stray, done>>
      BY <1>0, <2>4 DEF Replies, TypeOK, SignerTypeOK, signerVars, Reply
    <2> QED
      BY <1>3, <2>1, <2>2, <2>3, <2>4 DEF Process
  <1>4. CASE TellStatus
    <2>1. work \in Reply
      BY <1>0 DEF TypeOK, Reply
    <2> QED
      BY <1>0, <1>1, <1>4, <2>1 DEF TellStatus, oci, TypeOK
  <1>5. CASE WorkEnds
    BY <1>0, <1>5 DEF WorkEnds, Writes, Updating, DoneInv, TypeOK, SignerTypeOK, signerVars,
                      progress
  <1>6. CASE StrayWritten
    BY <1>0, <1>6 DEF StrayWritten, Writes, TypeOK, SignerTypeOK, signerVars, progress
  <1>7. CASE (Revoke \/ SetClockBack) /\ UNCHANGED <<oci, progress, ghosts>>
    <2>1. ASSUME Revoke PROVE SignerTypeOK'
      <3>1. token \in Token /\ token' = [token EXCEPT !.revoked = TRUE]
        BY <1>0, <2>1 DEF Revoke, SignerTypeOK
      <3>2. token' \in Token
        BY <3>1 DEF Token
      <3> QED
        BY <1>0, <2>1, <3>2 DEF Revoke, SignerTypeOK
    <2>2. ASSUME SetClockBack PROVE SignerTypeOK'
      BY <1>0, <2>2 DEF SetClockBack, SignerTypeOK
    <2>3. SignerTypeOK'
      BY <1>7, <2>1, <2>2
    <2> QED
      BY <1>0, <1>7, <2>3 DEF TypeOK, oci, progress, ghosts
  <1> QED
    BY <1>2, <1>3, <1>4, <1>5, <1>6, <1>7 DEF Environment

LEMMA TickTypeOfToken ==
  ASSUME TypeOK, Tick
  PROVE  (token = None /\ token' = None) \/ token' \in Token
  <1>1. CASE token = None
    BY <1>1 DEF Tick, Ages
  <1>2. CASE token # None
    <2>1. token \in Token
      BY <1>2 DEF TypeOK, SignerTypeOK
    <2>2. token' = [token EXCEPT !.left = IF @ = -MaxBack THEN @ ELSE @ - 1]
      BY <1>2 DEF Tick, Ages
    <2>3. token.left \in -MaxBack..Lifetime
      BY <2>1 DEF Token
    <2>4. (IF token.left = -MaxBack THEN token.left ELSE token.left - 1) \in -MaxBack..Lifetime
      BY <2>3, Bounds
    <2> QED
      BY <2>1, <2>2, <2>4 DEF Token
  <1> QED
    BY <1>1, <1>2

LEMMA TickType ==
  ASSUME ClientInv, Tick
  PROVE  TypeOK'
  <1> USE Bounds DEF ClientInv
  <1>0. SignerTypeOK /\ TypeOK
    BY DEF TypeOK
  <1>1. SignerTypeOK'
    BY <1>0, TickTypeOfToken DEF Tick, Ages, SignerTypeOK
  <1>2. age' \in 0..MaxRequest
    BY <1>0 DEF Tick, TypeOK
  <1>3. sleep' \in 0..MaxRetryAfter
    BY <1>0 DEF Tick, TypeOK
  <1>4. waited' \in 0..WaitLimit + 1
    BY <1>0 DEF Tick, TypeOK
  <1> QED
    BY <1>0, <1>1, <1>2, <1>3, <1>4 DEF Tick, TypeOK, oci, ghosts

LEMMA TypeStep ==
  ASSUME ClientInv, [Next]_vars
  PROVE  TypeOK'
  <1>1. CASE Start
    <2>1. ToSign("request", FALSE)
      BY <1>1 DEF Start
    <2>2. call' \in Value \cup {Read} /\ done' \in BOOLEAN /\ answer' \in {"none", "ok", "failed"}
      BY <1>1 DEF Start, ClientInv, TypeOK
    <2> QED
      BY <1>1, <2>1, <2>2, ToSignType
      DEF Start, ClientInv, TypeOK, SignerTypeOK, signerVars, oci
  <1>2. CASE UNCHANGED vars
    BY <1>2 DEF ClientInv, TypeOK, SignerTypeOK, vars, signerVars, oci, progress, ghosts
  <1> QED
    BY <1>1, <1>2, ClientType, EnvironmentType, TickType DEF Next

-----------------------------------------------------------------------------
(* The key and the token.                                                  *)

KeysInv == SignerInv /\ RetryInv

LEMMA SignerTypes ==
  ASSUME TypeOK
  PROVE  /\ None \notin Session /\ None \notin Token
         /\ credentials \in Session \cup {None}
         /\ token # None => token \in Token /\ token.session \in Session /\ token.left \in Int
         /\ back \in Nat /\ Headroom \in Nat /\ age \in Nat /\ retried \in BOOLEAN
  BY SignerAssumption, ClientAssumption DEF TypeOK, SignerTypeOK, Token

\* A step that leaves the pair and the request alone.
LEMMA KeysStay ==
  ASSUME KeysInv, UNCHANGED <<signerVars, pc, age, retried, renewed>>
  PROVE  KeysInv'
  BY DEF KeysInv, SignerInv, RetryInv, signerVars

\* A step that leaves the pair alone and after which nothing is signed or sent.
LEMMA KeysRest ==
  ASSUME KeysInv, UNCHANGED signerVars,
         pc' \in {"idle", "sleep"} \/ (pc' = "sign" /\ retried' = FALSE)
  PROVE  KeysInv'
  BY DEF KeysInv, SignerInv, RetryInv, signerVars

LEMMA KeysSigning ==
  ASSUME TypeOK, KeysInv, SignWithKeptToken \/ RenewCredentials \/ RenewToken
  PROVE  KeysInv'
  <1>0. /\ None \notin Session /\ None \notin Token
        /\ credentials \in Session \cup {None}
        /\ token # None => token \in Token /\ token.session \in Session /\ token.left \in Int
        /\ back \in Nat /\ Headroom \in Nat /\ age \in Nat /\ retried \in BOOLEAN
    BY SignerTypes
  <1>1. CASE SignWithKeptToken
    <2>1. /\ credentials # None /\ token # None
          /\ back = 0 => token.left > Headroom
      BY <1>0, <1>1 DEF SignWithKeptToken, NeedsToken, Expired
    <2>2. back = 0 => credentials = token.session
      BY <1>0, <2>1 DEF KeysInv, SignerInv
    <2>3. ~retried
      BY <1>1, <2>1 DEF SignWithKeptToken, KeysInv, RetryInv
    <2>4. pc' = "sent" /\ age' = 0 /\ retried' = retried /\ UNCHANGED <<credentials, token, back>>
      BY <1>1 DEF SignWithKeptToken, Sent, signerVars
    <2> QED
      BY <1>0, <2>1, <2>2, <2>3, <2>4 DEF KeysInv, SignerInv, RetryInv
  <1>2. CASE RenewCredentials
    <2>1. CASE Raise /\ UNCHANGED signerVars
      BY <2>1, KeysRest DEF Raise, End
    <2>2. CASE NewCredentials /\ pc' = "token"
      <3>1. credentials' \in Session /\ UNCHANGED <<token, back>>
        BY <2>2 DEF NewCredentials
      <3>2. token # None /\ back = 0 => token.left <= Headroom
        BY <1>0, <1>2 DEF RenewCredentials, NeedsToken, Expired, KeysInv, SignerInv
      <3> QED
        BY <1>0, <2>2, <3>1, <3>2 DEF KeysInv, SignerInv, RetryInv
    <2> QED
      BY <1>2, <2>1, <2>2 DEF RenewCredentials
  <1>3. CASE RenewToken
    <2>1. CASE Raise /\ UNCHANGED signerVars
      BY <2>1, KeysRest DEF Raise, End
    <2>2. CASE NewToken /\ Sent /\ renewed' = TRUE
      <3>1. credentials \in Session
        BY <1>0, <1>3 DEF RenewToken, KeysInv, SignerInv
      <3>2. /\ token' = [session |-> credentials, left |-> Lifetime, revoked |-> FALSE]
            /\ UNCHANGED <<credentials, back>>
        BY <2>2 DEF NewToken
      <3>3. token' \in Token /\ token'.session = credentials /\ token'.left = Lifetime
        BY <3>1, <3>2, SignerAssumption DEF Token
      <3>4. pc' = "sent" /\ age' = 0
        BY <2>2 DEF Sent
      <3>5. token'.left + age' > Headroom
        BY <1>0, <3>3, <3>4, SignerAssumption
      <3>6. token' # None /\ credentials' # None /\ credentials' = token'.session
        BY <1>0, <3>1, <3>2, <3>3
      <3> QED
        BY <2>2, <3>4, <3>5, <3>6 DEF KeysInv, SignerInv, RetryInv
    <2> QED
      BY <1>3, <2>1, <2>2 DEF RenewToken
  <1> QED
    BY <1>1, <1>2, <1>3

LEMMA KeysClient ==
  ASSUME TypeOK, KeysInv, Client
  PROVE  KeysInv'
  <1>1. CASE SignWithKeptToken \/ RenewCredentials \/ RenewToken
    BY <1>1, KeysSigning
  <1>2. CASE Resend
    BY <1>2, KeysStay DEF Resend
  <1>3. CASE NoAnswer \/ RaiseForStatus \/ Return \/ TimeOut
    BY <1>3, KeysRest DEF NoAnswer, RaiseForStatus, Return, TimeOut, Raise, End
  <1>4. CASE RetryWithNewToken
    BY <1>4 DEF RetryWithNewToken, Invalidate, ToSign, KeysInv, SignerInv, RetryInv
  <1>5. CASE BeginPolling \/ PollAgain \/ Sleep
    BY <1>5, KeysRest DEF BeginPolling, PollAgain, Sleep, ToSign
  <1> QED
    BY <1>1, <1>2, <1>3, <1>4, <1>5 DEF Client

LEMMA KeysTick ==
  ASSUME TypeOK, KeysInv, Tick
  PROVE  KeysInv'
  <1>0. /\ None \notin Session /\ None \notin Token
        /\ credentials \in Session \cup {None}
        /\ token # None => token \in Token /\ token.session \in Session /\ token.left \in Int
        /\ back \in Nat /\ Headroom \in Nat /\ age \in Nat /\ retried \in BOOLEAN
    BY SignerTypes
  <1>1. UNCHANGED <<credentials, back, pc, retried, renewed>> /\ pc # "sign"
    BY DEF Tick, Ages
  <1>2. CASE token = None
    <2>1. token' = None
      BY <1>2 DEF Tick, Ages
    <2> QED
      BY <1>1, <1>2, <2>1 DEF KeysInv, SignerInv, RetryInv
  <1>3. CASE token # None
    <2>1. token' = [token EXCEPT !.left = IF @ = -MaxBack THEN @ ELSE @ - 1]
      BY <1>3 DEF Tick, Ages
    <2>2. token'.session = token.session /\ token' \in Token /\ token' # None
      <3>1. token' \in Token
        BY TickTypeOfToken, <1>3
      <3> QED
        BY <1>0, <1>3, <2>1, <3>1 DEF Token
    <2>3. token'.left <= token.left /\ token'.left >= token.left - 1 /\ token'.left \in Int
      BY <1>0, <1>3, <2>1 DEF Token
    <2>4. pc = "sent" => age' = age + 1
      BY DEF Tick
    <2> QED
      BY <1>0, <1>1, <1>3, <2>2, <2>3, <2>4 DEF KeysInv, SignerInv, RetryInv
  <1> QED
    BY <1>2, <1>3

LEMMA KeysEnvironment ==
  ASSUME TypeOK, KeysInv, Environment
  PROVE  KeysInv'
  <1>0. /\ None \notin Session /\ None \notin Token
        /\ token # None => token \in Token
        /\ back \in Nat
    BY SignerTypes
  <1>1. CASE Reject \/ Process \/ TellStatus
    BY <1>1, KeysStay DEF Reject, Process, TellStatus, Replies
  <1>2. CASE WorkEnds \/ StrayWritten
    BY <1>2, KeysStay DEF WorkEnds, StrayWritten, progress
  <1>3. CASE Revoke /\ UNCHANGED <<oci, progress, ghosts>>
    <2>1. token \in Token /\ token' = [token EXCEPT !.revoked = TRUE] /\ token # None
      BY <1>0, <1>3 DEF Revoke
    <2>2. token' \in Token /\ token'.session = token.session /\ token'.left = token.left
      BY <2>1 DEF Token
    <2> QED
      BY <1>0, <1>3, <2>1, <2>2 DEF Revoke, KeysInv, SignerInv, RetryInv, progress
  <1>4. CASE SetClockBack /\ UNCHANGED <<oci, progress, ghosts>>
    <2>1. back' # 0
      BY <1>0, <1>4, SignerAssumption DEF SetClockBack
    <2> QED
      BY <1>4, <2>1 DEF SetClockBack, KeysInv, SignerInv, RetryInv, progress
  <1> QED
    BY <1>1, <1>2, <1>3, <1>4 DEF Environment

LEMMA KeysStep ==
  ASSUME ClientInv, [Next]_vars
  PROVE  KeysInv'
  <1>0. TypeOK /\ KeysInv
    BY DEF ClientInv, KeysInv
  <1>1. CASE Start
    BY <1>0, <1>1, KeysRest DEF Start, ToSign
  <1>2. CASE UNCHANGED vars
    BY <1>0, <1>2, KeysStay DEF vars, progress
  <1> QED
    BY <1>0, <1>1, <1>2, KeysClient, KeysTick, KeysEnvironment DEF Next

-----------------------------------------------------------------------------
(* The time.                                                               *)

LEMMA WaitTypes ==
  ASSUME TypeOK
  PROVE  /\ WrTimeout \in Nat /\ WrTimeout >= 1 /\ MaxRequest \in Nat /\ MaxRetryAfter \in Nat
         /\ age \in Nat /\ age <= MaxRequest /\ sleep \in Nat /\ waited \in Nat
         /\ retried \in BOOLEAN
         /\ Before \in Nat /\ Before <= WrTimeout - 1 + 2 * MaxRequest
         /\ WaitLimit = WrTimeout - 1 + 4 * MaxRequest + MaxRetryAfter
  BY Bounds DEF TypeOK, Before, WaitLimit

\* A step that leaves the request alone.
LEMMA WaitStays ==
  ASSUME WaitInv, UNCHANGED <<pc, phase, retried, age, waited, sleep>>
  PROVE  WaitInv'
  BY DEF WaitInv, Before

LEMMA WaitEnds ==
  ASSUME NEW outcome, End(outcome)
  PROVE  WaitInv'
  BY DEF End, WaitInv

\* A request is signed for the first time, within the deadline.
LEMMA WaitSigns ==
  ASSUME TypeOK, NEW ph, ToSign(ph, FALSE), waited' \in Nat, waited' < WrTimeout
  PROVE  WaitInv'
  <1>1. Before' = WrTimeout - 1
    BY WaitTypes DEF ToSign, Before
  <1> QED
    BY <1>1, WaitTypes DEF ToSign, WaitInv

LEMMA WaitClient ==
  ASSUME TypeOK, WaitInv, Client
  PROVE  WaitInv'
  <1> USE WaitTypes
  <1>1. CASE SignWithKeptToken
    BY <1>1 DEF SignWithKeptToken, Sent, WaitInv, Before
  <1>2. CASE RenewCredentials
    <2>1. CASE Raise
      BY <2>1, WaitEnds DEF Raise
    <2>2. CASE ~Raise
      BY <1>2, <2>2 DEF RenewCredentials, WaitInv, Before
    <2> QED
      BY <2>1, <2>2
  <1>3. CASE RenewToken
    <2>1. CASE Raise
      BY <2>1, WaitEnds DEF Raise
    <2>2. CASE ~Raise
      BY <1>3, <2>2 DEF RenewToken, Sent, WaitInv, Before
    <2> QED
      BY <2>1, <2>2
  <1>4. CASE Resend
    BY <1>4, WaitStays DEF Resend
  <1>5. CASE NoAnswer \/ RaiseForStatus \/ Return \/ TimeOut
    BY <1>5, WaitEnds DEF NoAnswer, RaiseForStatus, Return, TimeOut, Raise
  <1>6. CASE RetryWithNewToken
    <2>1. ~retried /\ retried' = TRUE /\ waited' = waited /\ pc = "sent" /\ pc' = "sign" /\ age' = 0
      BY <1>6 DEF RetryWithNewToken, Got, ToSign
    <2>2. waited <= WrTimeout - 1 + 2 * MaxRequest
      BY <2>1 DEF WaitInv, Before
    <2> QED
      BY <2>1, <2>2 DEF WaitInv, Before
  <1>7. CASE BeginPolling
    <2>1. ToSign("poll", FALSE) /\ waited' = 0
      BY <1>7 DEF BeginPolling
    <2>2. waited' \in Nat /\ waited' < WrTimeout
      BY <2>1
    <2> QED
      BY <2>1, <2>2, WaitSigns
  <1>8. CASE PollAgain
    BY <1>8, WaitSigns DEF PollAgain, InTime
  <1>9. CASE Sleep
    <2>1. pc = "sent" /\ pc' = "sleep" /\ waited' = waited /\ sleep' \in 0..MaxRetryAfter
      BY <1>9 DEF Sleep, Got
    <2>2. waited <= WrTimeout - 1 + 4 * MaxRequest
      BY <2>1 DEF WaitInv
    <2> QED
      BY <2>1, <2>2 DEF WaitInv
  <1> QED
    BY <1>1, <1>2, <1>3, <1>4, <1>5, <1>6, <1>7, <1>8, <1>9 DEF Client

LEMMA WaitStep ==
  ASSUME ClientInv, [Next]_vars
  PROVE  WaitInv'
  <1>0. TypeOK /\ WaitInv
    BY DEF ClientInv
  <1>1. CASE Start
    <2>1. ToSign("request", FALSE) /\ waited' = 0
      BY <1>0, <1>1 DEF Start, WaitInv
    <2>2. waited' \in Nat /\ waited' < WrTimeout
      BY <1>0, <2>1, WaitTypes
    <2> QED
      BY <1>0, <2>1, <2>2, WaitSigns
  <1>2. CASE Environment
    <2>1. UNCHANGED <<pc, phase, retried, age, waited, sleep>>
      BY <1>2 DEF Environment, Reject, Process, TellStatus, Replies, WorkEnds, StrayWritten,
                  progress
    <2> QED
      BY <1>0, <2>1, WaitStays
  <1>3. CASE Tick
    <2>1. UNCHANGED <<pc, phase, retried>> /\ pc # "sign" /\ waited' \in {waited, waited + 1}
          /\ (phase = "request" => waited' = waited)
      BY <1>0, <1>3 DEF Tick, TypeOK
    <2>2. pc \in {"token", "sent"} => age' = age + 1
      BY <1>3 DEF Tick
    <2>3. pc = "sleep" => sleep' = sleep - 1
      BY <1>3 DEF Tick
    <2> QED
      BY <1>0, <2>1, <2>2, <2>3, WaitTypes DEF WaitInv, Before
  <1>4. CASE UNCHANGED vars
    BY <1>0, <1>4, WaitStays DEF vars, progress
  <1> QED
    BY <1>0, <1>1, <1>2, <1>3, <1>4, WaitClient DEF Next

-----------------------------------------------------------------------------
(* The update.                                                             *)

LEMMA DoneClient ==
  ASSUME TypeOK, DoneInv, Client
  PROVE  DoneInv'
  <1>1. CASE SignWithKeptToken
    BY <1>1 DEF SignWithKeptToken, Sent, DoneInv, Updating, oci, ghosts
  <1>2. ASSUME NEW outcome, End(outcome) PROVE DoneInv'
    BY <1>2 DEF End, DoneInv
  <1>3. CASE RenewCredentials
    BY <1>2, <1>3 DEF RenewCredentials, Raise, DoneInv, Updating, oci, ghosts
  <1>4. CASE RenewToken
    BY <1>2, <1>4 DEF RenewToken, Sent, Raise, DoneInv, Updating, oci, ghosts
  <1>5. CASE Resend
    BY <1>5 DEF Resend, DoneInv, Updating, ghosts
  <1>6. CASE NoAnswer \/ RaiseForStatus \/ Return \/ TimeOut
    BY <1>2, <1>6 DEF NoAnswer, RaiseForStatus, Return, TimeOut, Raise
  <1>7. CASE RetryWithNewToken \/ BeginPolling \/ PollAgain
    BY <1>7 DEF RetryWithNewToken, BeginPolling, PollAgain, ToSign, DoneInv, Updating, oci, ghosts
  <1>8. CASE Sleep
    BY <1>8 DEF Sleep, DoneInv, Updating, oci, ghosts
  <1> QED
    BY <1>1, <1>3, <1>4, <1>5, <1>6, <1>7, <1>8 DEF Client

LEMMA DoneEnvironment ==
  ASSUME TypeOK, DoneInv, Environment
  PROVE  DoneInv'
  <1>0. ASSUME NEW r, Replies(r), UNCHANGED work, done => done',
               r \in {"ok", "SUCCEEDED"} /\ Updating => done'
        PROVE  DoneInv'
    BY <1>0 DEF Replies, DoneInv, Updating
  <1>1. CASE Reject \/ TellStatus
    <2>1. work = "SUCCEEDED" \/ work \in {"none", "running", "FAILED"}
      BY DEF TypeOK
    <2> QED
      BY <1>0, <1>1, <2>1 DEF Reject, TellStatus, DoneInv, oci
  <1>2. CASE Process
    <2>1. CASE Replies("refused") /\ UNCHANGED <<oci, done>>
      BY <1>0, <2>1 DEF oci
    <2>2. CASE ~Updating /\ Replies("ok") /\ UNCHANGED <<oci, done>>
      BY <1>0, <2>2 DEF oci
    <2>3. CASE Replies("ok") /\ Writes(call) /\ UNCHANGED <<work, stray>>
      BY <1>0, <2>3 DEF Writes
    <2>4. CASE Updating /\ Replies("accepted") /\ work' = "running" /\ UNCHANGED done
      BY <1>2, <2>4 DEF Process, AwaitsOci, Replies, DoneInv, Updating
    <2> QED
      BY <1>2, <2>1, <2>2, <2>3, <2>4 DEF Process
  <1>3. CASE WorkEnds \/ StrayWritten
    BY <1>3 DEF WorkEnds, StrayWritten, Writes, progress, DoneInv, Updating
  <1>4. CASE UNCHANGED <<oci, progress, ghosts>>
    BY <1>4 DEF oci, progress, ghosts, DoneInv, Updating
  <1> QED
    BY <1>1, <1>2, <1>3, <1>4 DEF Environment

LEMMA DoneStep ==
  ASSUME ClientInv, [Next]_vars
  PROVE  DoneInv'
  <1>0. TypeOK /\ DoneInv
    BY DEF ClientInv
  <1>1. CASE Start
    <2>1. work = "none"
      BY <1>0, <1>1, Bounds DEF Start, DoneInv, Updating
    <2> QED
      BY <1>0, <1>1, <2>1 DEF Start, ToSign, DoneInv, oci
  <1>2. CASE Tick
    BY <1>0, <1>2 DEF Tick, DoneInv, Updating, oci, ghosts
  <1>3. CASE UNCHANGED vars
    BY <1>0, <1>3 DEF vars, oci, progress, ghosts, DoneInv, Updating
  <1> QED
    BY <1>0, <1>1, <1>2, <1>3, DoneClient, DoneEnvironment DEF Next

-----------------------------------------------------------------------------
LEMMA ClientInvInit == Init => ClientInv
  <1> SUFFICES ASSUME Init PROVE ClientInv
    OBVIOUS
  <1>1. TypeOK
    <2>1. SignerTypeOK
      BY Bounds DEF Init, SignerInit, SignerTypeOK
    <2>2. /\ tries \in 0..HttpRetries /\ sleep \in 0..MaxRetryAfter
          /\ age \in 0..MaxRequest /\ waited \in 0..WaitLimit + 1
      BY Bounds DEF Init
    <2>3. pc \in Label /\ reply \in Reply
      BY DEF Init, Label, Reply
    <2> QED
      BY <2>1, <2>2, <2>3 DEF Init, TypeOK
  <1>2. SignerInv /\ RetryInv
    BY DEF Init, SignerInit, SignerInv, RetryInv
  <1>3. WaitInv /\ DoneInv
    BY DEF Init, WaitInv, DoneInv
  <1> QED
    BY <1>1, <1>2, <1>3 DEF ClientInv

LEMMA ClientInvStep == ClientInv /\ [Next]_vars => ClientInv'
  BY TypeStep, KeysStep, WaitStep, DoneStep DEF ClientInv, KeysInv

LEMMA ClientInvariant == Spec => []ClientInv
  BY ClientInvInit, ClientInvStep, PTL DEF Spec

-----------------------------------------------------------------------------
\* Every variable keeps its type; in particular the session sends a request no
\* more than HttpRetries times again and no call waits beyond the limit.
THEOREM TypeCorrect == Spec => []TypeOK
  BY ClientInvariant, PTL DEF ClientInv

\* A renewal that fails half way never leads to a signature with a key and a
\* token that do not belong together, if the engine's clock is not set back.
THEOREM SignatureMatchesTokenHolds == Spec => []SignatureMatchesToken
  <1>1. ClientInv => SignatureMatchesToken
    BY SignerTypes DEF ClientInv, SignerInv, SignatureMatchesToken, Matches
  <1> QED
    BY <1>1, ClientInvariant, PTL

\* _poll_work_request holds its caller no longer than WR_TIMEOUT and one more
\* poll and sleep.
THEOREM WaitIsBoundedHolds == Spec => []WaitIsBounded
  <1>1. ASSUME ClientInv PROVE WaitIsBounded
    <2>1. TypeOK /\ WaitInv
      BY <1>1 DEF ClientInv
    <2>2. pc \in {"idle", "sign", "token", "sent", "sleep"}
      BY <2>1 DEF TypeOK, Label
    <2> QED
      BY <2>1, <2>2, WaitTypes DEF WaitInv, WaitIsBounded
  <1> QED
    BY <1>1, ClientInvariant, PTL

\* A 401 fails a call only when the token was requested for that very request.
THEOREM KeptTokenFailsNoCallHolds == Spec => KeptTokenFailsNoCall
  <1>1. ClientInv => [Got("401") /\ RaiseForStatus => renewed]_vars
    BY DEF ClientInv, RetryInv, Got, RaiseForStatus
  <1> QED
    BY <1>1, ClientInvariant, PTL DEF KeptTokenFailsNoCall

\* Only a step of OCI answers 401.
LEMMA WhoRejects ==
  ASSUME ClientInv, [Next]_vars, reply' = "401", reply # "401"
  PROVE  Reject
  <1>1. ~Start /\ ~UNCHANGED vars /\ ~Tick
    BY DEF Start, ToSign, Tick, vars, progress
  <1>2. ~Client
    BY DEF Client, SignWithKeptToken, Sent, RenewCredentials, RenewToken, Raise, End, Resend,
           NoAnswer, RetryWithNewToken, RaiseForStatus, Return, BeginPolling, Sleep, PollAgain,
           TimeOut, ToSign
  <1>3. ~TellStatus
    BY DEF TellStatus, Replies, ClientInv, TypeOK
  <1>4. ~Process /\ ~WorkEnds /\ ~StrayWritten /\ ~UNCHANGED <<oci, progress, ghosts>>
    BY DEF Process, Replies, WorkEnds, StrayWritten, progress
  <1> QED
    BY <1>1, <1>2, <1>3, <1>4 DEF Next, Environment

\* A request under way no longer than the headroom is not rejected for its age,
\* whatever the lifetime, the headroom and the time a request may take.
THEOREM RejectedOnlyIfSlowHolds == Spec => RejectedOnlyIfSlow
  <1>1. ASSUME ClientInv, [Next]_vars
        PROVE  [reply' = "401" /\ reply # "401" /\ ~token.revoked /\ back = 0
                  => age > Headroom]_vars
    <2> SUFFICES ASSUME reply' = "401", reply # "401", ~token.revoked, back = 0
                 PROVE  age > Headroom
      OBVIOUS
    <2>1. pc = "sent" /\ ~Honoured
      BY <1>1, WhoRejects DEF Reject, AwaitsOci
    <2>2. token # None /\ credentials = token.session /\ token.left + age > Headroom
      BY <1>1, <2>1 DEF ClientInv, SignerInv
    <2>3. ~(token.left > 0)
      BY <2>1, <2>2 DEF Honoured, Matches
    <2> QED
      BY <1>1, <2>2, <2>3, SignerTypes DEF ClientInv
  <1> QED
    BY <1>1, ClientInvariant, PTL DEF RejectedOnlyIfSlow, Spec

-----------------------------------------------------------------------------
(* The refinement.                                                         *)

TheCall == IF Updating THEN call ELSE None
Waiting == stray \cup (IF work = "running" THEN {call} ELSE {})

\* Nothing that CloudCall speaks of changes.
Stutters == UNCHANGED <<oci, call, ghosts>>

LEMMA StutterMaps ==
  ASSUME Stutters
  PROVE  UNCHANGED Cloud!callVars
  BY DEF Stutters, oci, ghosts, Updating, Cloud!callVars

LEMMA EndMaps ==
  ASSUME TypeOK, DoneInv, NEW outcome, End(outcome),
         outcome = "failed" \/ (outcome = "ok" /\ (Updating => done))
  PROVE  [Cloud!Succeed \/ Cloud!Fail]_(Cloud!callVars)
  <1> USE Bounds
  <1>1. TheCall' = None
    BY DEF End, TheCall, Updating
  <1>2. Waiting' = Waiting
    BY DEF End, Waiting
  <1>3. UNCHANGED <<store, done>>
    BY DEF End
  <1>4. CASE Updating
    <2>1. TheCall # None /\ answer' = outcome
      BY <1>4 DEF TheCall, Updating, End
    <2> QED
      BY <1>1, <1>2, <1>3, <1>4, <2>1 DEF TheCall, Waiting, Cloud!Succeed, Cloud!Fail
  <1>5. CASE ~Updating
    <2>1. TheCall = None /\ answer' = answer
      BY <1>5 DEF TheCall, End
    <2> QED
      BY <1>1, <1>2, <1>3, <2>1 DEF TheCall, Waiting, Cloud!callVars
  <1> QED
    BY <1>4, <1>5

LEMMA StartMaps ==
  ASSUME TypeOK, DoneInv, Start
  PROVE  [Cloud!Begin]_(Cloud!callVars)
  <1> USE Bounds
  <1>1. call = None /\ ~Updating /\ work = "none"
    BY DEF Start, DoneInv, Updating
  <1>2. TheCall = None /\ Waiting = stray /\ Waiting' = stray /\ store' = store
    BY <1>1 DEF Start, oci, TheCall, Waiting
  <1>3. CASE call' \in Value
    <2>1. TheCall' = call' /\ done' = FALSE /\ answer' = "none"
      BY <1>3 DEF Start, TheCall, Updating
    <2> QED
      BY <1>2, <1>3, <2>1 DEF Cloud!Begin, TheCall, Waiting
  <1>4. CASE call' \notin Value
    <2>1. TheCall' = None /\ done' = done /\ answer' = answer
      BY <1>4 DEF Start, TheCall, Updating
    <2> QED
      BY <1>2, <2>1 DEF Cloud!callVars, TheCall, Waiting
  <1> QED
    BY <1>3, <1>4

LEMMA ResendMaps ==
  ASSUME TypeOK, DoneInv, Resend
  PROVE  [Cloud!Send]_(Cloud!callVars)
  <1> USE Bounds
  <1>1. UNCHANGED <<store, call, done, answer>> /\ TheCall' = TheCall
    BY DEF Resend, ghosts, TheCall, Updating
  <1>2. Waiting' = Waiting \/ (Updating /\ Waiting' = Waiting \cup {call})
    <2>1. CASE phase = "request" /\ work = "running"
      BY <1>1, <2>1 DEF Resend, LosesTrack, Waiting
    <2>2. CASE phase = "request" /\ work # "running"
      BY <1>1, <2>2 DEF Resend, LosesTrack, Waiting
    <2>3. CASE phase # "request"
      BY <1>1, <2>3 DEF Resend, LosesTrack, Waiting
    <2> QED
      BY <2>1, <2>2, <2>3
  <1>3. Updating => TheCall = call /\ TheCall # None
    BY DEF TheCall, Updating
  <1> QED
    BY <1>1, <1>2, <1>3 DEF TheCall, Waiting, Cloud!Send, Cloud!callVars

LEMMA ClientMaps ==
  ASSUME TypeOK, DoneInv, Client
  PROVE  [Cloud!CallNext]_(Cloud!callVars)
  <1>1. ASSUME Raise PROVE [Cloud!CallNext]_(Cloud!callVars)
    BY <1>1, EndMaps DEF Raise, Cloud!CallNext
  <1>2. CASE SignWithKeptToken
    BY <1>2, StutterMaps DEF SignWithKeptToken, Sent, Stutters
  <1>3. CASE RenewCredentials
    BY <1>1, <1>3, StutterMaps DEF RenewCredentials, Stutters
  <1>4. CASE RenewToken
    BY <1>1, <1>4, StutterMaps DEF RenewToken, Sent, Stutters
  <1>5. CASE Resend
    BY <1>5, ResendMaps DEF Cloud!CallNext
  <1>6. CASE NoAnswer \/ RaiseForStatus \/ TimeOut
    BY <1>1, <1>6 DEF NoAnswer, RaiseForStatus, TimeOut
  <1>7. CASE Return
    <2>1. Updating => done
      BY <1>7 DEF Return, Got, DoneInv
    <2> QED
      BY <1>1, <1>7, <2>1, EndMaps DEF Return, Cloud!CallNext
  <1>8. CASE RetryWithNewToken \/ BeginPolling \/ PollAgain \/ Sleep
    BY <1>8, StutterMaps DEF RetryWithNewToken, BeginPolling, PollAgain, Sleep, Stutters
  <1> QED
    BY <1>2, <1>3, <1>4, <1>5, <1>6, <1>7, <1>8 DEF Client

LEMMA EnvironmentMaps ==
  ASSUME TypeOK, DoneInv, Environment
  PROVE  [Cloud!CallNext]_(Cloud!callVars)
  <1> USE Bounds
  <1>0. ASSUME NEW r, Replies(r) PROVE call' = call /\ answer' = answer /\ TheCall' = TheCall
    BY <1>0 DEF Replies, TheCall, Updating
  <1>1. CASE Reject \/ TellStatus
    BY <1>1, StutterMaps DEF Reject, TellStatus, Replies, Stutters, ghosts
  <1>2. CASE Process
    <2>1. CASE Replies("refused") /\ UNCHANGED <<oci, done>>
      BY <2>1, StutterMaps DEF Replies, Stutters, ghosts
    <2>2. CASE Replies("ok") /\ UNCHANGED <<oci, done>>
      BY <2>2, StutterMaps DEF Replies, Stutters, ghosts
    <2>3. CASE Updating /\ Replies("ok") /\ Writes(call) /\ UNCHANGED <<work, stray>>
      <3>1. TheCall = call /\ call # None /\ Waiting' = Waiting
        BY <1>0, <2>3 DEF TheCall, Waiting, Updating
      <3>2. Cloud!Write
        BY <1>0, <2>3, <3>1 DEF Writes, TheCall, Waiting, Cloud!Write
      <3> QED
        BY <3>2 DEF Cloud!CallNext
    <2>4. CASE Updating /\ Replies("accepted") /\ work' = "running"
               /\ UNCHANGED <<store, stray, done>>
      <3>1. TheCall = call /\ call # None /\ Waiting' = Waiting \cup {call}
        BY <1>0, <2>4 DEF TheCall, Waiting, Updating
      <3>2. Cloud!Send
        BY <1>0, <2>4, <3>1 DEF TheCall, Waiting, Cloud!Send
      <3> QED
        BY <3>2 DEF Cloud!CallNext
    <2> QED
      BY <1>2, <2>1, <2>2, <2>3, <2>4 DEF Process
  <1>3. CASE WorkEnds
    <2>1. TheCall = call /\ TheCall' = call /\ call' = call /\ answer' = answer /\ stray' = stray
      BY <1>3 DEF WorkEnds, DoneInv, progress, TheCall, Updating
    <2>2. Waiting = stray \cup {call} /\ Waiting' = stray
      BY <1>3, <2>1 DEF WorkEnds, Waiting
    <2>3. CASE Writes(call)
      <3>1. Waiting' = Waiting \/ Waiting' = Waiting \ {call}
        BY <2>2
      <3>2. Cloud!Write
        BY <2>1, <2>2, <2>3, <3>1 DEF Writes, TheCall, Waiting, Cloud!Write
      <3> QED
        BY <3>2 DEF Cloud!CallNext
    <2>4. CASE UNCHANGED <<store, done>>
      <3>1. Cloud!Drop
        BY <2>1, <2>2, <2>4 DEF TheCall, Waiting, Cloud!Drop
      <3> QED
        BY <3>1 DEF Cloud!CallNext
    <2> QED
      BY <1>3, <2>3, <2>4 DEF WorkEnds
  <1>4. CASE StrayWritten
    <2>1. call' = call /\ work' = work /\ answer' = answer /\ TheCall' = TheCall
      BY <1>4 DEF StrayWritten, progress, TheCall, Updating
    <2>2. PICK v \in stray : Writes(v) /\ stray' \in {stray, stray \ {v}}
      BY <1>4 DEF StrayWritten
    <2>3. Waiting' = Waiting \/ Waiting' = Waiting \ {v}
      BY <2>1, <2>2 DEF Waiting
    <2>4. v = TheCall <=> v = call
      BY <2>2 DEF TheCall, Updating, TypeOK
    <2>5. v \in Waiting
      BY <2>2 DEF Waiting
    <2>6. Cloud!Write
      BY <2>1, <2>2, <2>3, <2>4, <2>5 DEF Writes, TheCall, Waiting, Cloud!Write
    <2> QED
      BY <2>6 DEF Cloud!CallNext
  <1>5. CASE UNCHANGED <<oci, progress, ghosts>>
    BY <1>5, StutterMaps DEF progress, Stutters
  <1> QED
    BY <1>1, <1>2, <1>3, <1>4, <1>5 DEF Environment

\* A call that returns has been applied; one that raises may be applied then,
\* later or never: the client keeps CloudCall's promise.
THEOREM ClientImplementsCall == Spec => KeepsCloudPromise
  <1>1. Init => Cloud!CallInit
    BY Bounds DEF Init, Updating, Cloud!CallInit
  <1>2. ClientInv /\ [Next]_vars => [Cloud!CallNext]_(Cloud!callVars)
    <2> SUFFICES ASSUME ClientInv, [Next]_vars
                 PROVE  [Cloud!CallNext]_(Cloud!callVars)
      OBVIOUS
    <2>0. TypeOK /\ DoneInv
      BY DEF ClientInv
    <2>1. CASE Start
      BY <2>0, <2>1, StartMaps DEF Cloud!CallNext
    <2>2. CASE Tick
      BY <2>2, StutterMaps DEF Tick, Stutters
    <2>3. CASE UNCHANGED vars
      BY <2>3, StutterMaps DEF vars, progress, Stutters
    <2> QED
      BY <2>0, <2>1, <2>2, <2>3, ClientMaps, EnvironmentMaps DEF Next
  <1> QED
    BY <1>1, <1>2, ClientInvariant, PTL DEF Spec, KeepsCloudPromise, Cloud!CallSpec
=============================================================================
