----------------------------- MODULE EngineProofs -----------------------------
(***************************************************************************)
(* Proofs about Engine and Server: for every context size, every prompt    *)
(* and every max_tokens, no token is written past kv_tokens, and the       *)
(* buffer and what the backend was given agree; the server uses the engine *)
(* as Engine says; and it hears that it is stopped.                        *)
(***************************************************************************)
EXTENDS Server, SequenceTheorems, TLAPS

\* What a backend is given when it is given s from the start.
FedOf(s) == [i \in DOMAIN s |-> [token |-> s[i], pos |-> i - 1]]

NothingGenerated == call.stage \in {"idle", "prefill", "announce"} => out = <<>>
IdleForgets == Idle => call = NoCall /\ fed = <<>>
NotBeyond == call.stage = "tokens" => Len(out) <= call.gen
ResetBefore == call.stage = "prefill" /\ backend # "none" => kv = <<>>
UnderWay == call.stage \notin {"idle", "gone"} => call.op \in {"sync", "stream"}

\* A stream that was announced has its prompt in place, and its room.
AnnouncedContext ==
  call.stage = "announce" =>
    /\ call.op = "stream"
    /\ Len(kv) + call.gen <= KvCap
    /\ backend # "none" /\ Len(call.prompt) <= KvCap
       => kv = call.prompt /\ fed = FedOf(kv)

IInv ==
  /\ EngineTypeOK
  /\ RoomIsLeft
  /\ ContextMatchesCache
  /\ NothingGenerated
  /\ IdleForgets
  /\ NotBeyond
  /\ ResetBefore
  /\ UnderWay
  /\ AnnouncedContext
-----------------------------------------------------------------------------
(* Sequences.                                                              *)

\* A prefix is a sequence, no longer than it may be.
LEMMA UpToType ==
  ASSUME NEW s \in Seq(TokenIds), NEW n \in Nat
  PROVE  /\ UpTo(s, n) \in Seq(TokenIds)
         /\ Len(UpTo(s, n)) <= n
         /\ Len(s) <= n => UpTo(s, n) = s
  <1> DEFINE k == IF n < Len(s) THEN n ELSE Len(s)
  <1>1. k \in 0 .. Len(s) /\ k <= n /\ (Len(s) <= n => k = Len(s))
    BY LenProperties
  <1>2. \A i \in 1 .. k : s[i] \in TokenIds
    BY <1>1, ElementOfSeq
  <1> HIDE DEF k
  <1>3. /\ SubSeq(s, 1, k) \in Seq(TokenIds)
        /\ Len(SubSeq(s, 1, k)) = IF 1 <= k THEN k - 1 + 1 ELSE 0
    BY <1>1, <1>2, SubSeqProperties
  <1>4. Len(s) <= n => SubSeq(s, 1, k) = s
    BY <1>1, SubSeqFull
  <1>5. UpTo(s, n) = SubSeq(s, 1, k)
    BY DEF UpTo, k
  <1> QED  BY <1>1, <1>3, <1>4, <1>5

LEMMA FedOfType ==
  ASSUME NEW s \in Seq(TokenIds)
  PROVE  FedOf(s) \in Seq([token : TokenIds, pos : Nat]) /\ Len(FedOf(s)) = Len(s)
  <1>1. Len(s) \in Nat /\ DOMAIN s = 1 .. Len(s) /\ \A i \in 1 .. Len(s) : s[i] \in TokenIds
    BY LenProperties, ElementOfSeq
  <1> QED  BY <1>1 DEF FedOf

\* FedOf a token more.
LEMMA FedOfAppend ==
  ASSUME NEW s \in Seq(TokenIds), NEW tok \in TokenIds
  PROVE  /\ FedOf(s) \in Seq([token : TokenIds, pos : Nat])
         /\ FedOf(Append(s, tok))
              = Append(FedOf(s), [token |-> tok, pos |-> Len(Append(s, tok)) - 1])
  <1> DEFINE P == [token : TokenIds, pos : Nat]
             a == Append(s, tok)
             e == [token |-> tok, pos |-> Len(a) - 1]
  <1>1. /\ Len(s) \in Nat
        /\ DOMAIN s = 1 .. Len(s)
        /\ \A i \in 1 .. Len(s) : s[i] \in TokenIds
    BY LenProperties, ElementOfSeq
  <1>2. /\ a \in Seq(TokenIds)
        /\ Len(a) = Len(s) + 1
        /\ DOMAIN a = 1 .. Len(s) + 1
        /\ \A i \in 1 .. Len(s) : a[i] = s[i]
        /\ a[Len(s) + 1] = tok
    BY <1>1, AppendProperties, LenProperties
  <1>3. FedOf(s) \in Seq(P) /\ Len(FedOf(s)) = Len(s)
    BY FedOfType
  <1>4. FedOf(a) \in Seq(P) /\ Len(FedOf(a)) = Len(s) + 1
    BY <1>2, FedOfType
  <1>5. e \in P
    BY <1>1, <1>2
  <1>6. /\ Append(FedOf(s), e) \in Seq(P)
        /\ Len(Append(FedOf(s), e)) = Len(s) + 1
        /\ \A i \in 1 .. Len(s) : Append(FedOf(s), e)[i] = FedOf(s)[i]
        /\ Append(FedOf(s), e)[Len(s) + 1] = e
    <2> HIDE DEF P, e
    <2> QED  BY <1>3, <1>5, AppendProperties
  <1>7. \A i \in 1 .. Len(s) + 1 : FedOf(a)[i] = Append(FedOf(s), e)[i]
    <2> SUFFICES ASSUME NEW i \in 1 .. Len(s) + 1
                 PROVE  FedOf(a)[i] = Append(FedOf(s), e)[i]
      OBVIOUS
    <2>1. FedOf(a)[i] = [token |-> a[i], pos |-> i - 1]
      BY <1>2 DEF FedOf
    <2>2. CASE i \in 1 .. Len(s)
      <3>1. FedOf(s)[i] = [token |-> s[i], pos |-> i - 1]
        BY <1>1, <2>2 DEF FedOf
      <3> QED  BY <1>2, <1>6, <2>1, <2>2, <3>1
    <2>3. CASE i = Len(s) + 1
      BY <1>1, <1>2, <1>6, <2>1, <2>3
    <2>4. i \in 1 .. Len(s) \/ i = Len(s) + 1
      BY <1>1
    <2> QED  BY <2>2, <2>3, <2>4, Zenon
  <1> HIDE DEF a, e, P
  <1>8. FedOf(a) = Append(FedOf(s), e)
    BY <1>4, <1>6, <1>7, SeqEqual
  <1> QED  BY <1>3, <1>8 DEF a, e, P
-----------------------------------------------------------------------------
\* The record of calls, and the empty sequences.
LEMMA NoCallType ==
  /\ NoCall \in [op : {"none", "sync", "stream"}, prompt : {<<>>} \cup Prompts,
                 max : {0} \cup MaxTokens, gen : Nat, stage : Stages]
  /\ NoCall.gen <= NoCall.max
  /\ <<>> \in Seq(TokenIds) /\ Len(<<>>) = 0
  /\ <<>> \in Seq([token : TokenIds, pos : Nat])
  <1>1. <<>> \in Seq(TokenIds) /\ Len(<<>>) = 0
    BY EmptySeq
  <1>2. <<>> \in Seq([token : TokenIds, pos : Nat])
    BY EmptySeq
  <1>3. NoCall.gen <= NoCall.max
    BY DEF NoCall
  <1> QED  BY <1>1, <1>2, <1>3 DEF NoCall, Stages

LEMMA InitIInv == EngineInit => IInv
  <1> SUFFICES ASSUME EngineInit PROVE IInv
    OBVIOUS
  <1>1. kv = <<>> /\ out = <<>> /\ fed = <<>> /\ call = NoCall /\ backend = "none"
    BY DEF EngineInit
  <1>2. EngineTypeOK
    BY <1>1, NoCallType, EngineAssumption DEF EngineInit, EngineTypeOK
  <1>3. RoomIsLeft /\ ContextMatchesCache
    BY <1>1, NoCallType, EngineAssumption DEF RoomIsLeft, ContextMatchesCache, NoCall
  <1>4. /\ NothingGenerated /\ IdleForgets /\ NotBeyond
        /\ ResetBefore /\ UnderWay /\ AnnouncedContext
    BY <1>1 DEF NothingGenerated, IdleForgets, Idle, NotBeyond, ResetBefore, UnderWay, AnnouncedContext,
           NoCall
  <1> QED  BY <1>2, <1>3, <1>4 DEF IInv

\* When no call is under way any buffer that fits will do.
LEMMA IdleIInv ==
  ASSUME source' \in Sources, loaded' \in BOOLEAN, backend' \in {"arch", "tf", "none"},
         kv' \in Seq(TokenIds), Len(kv') <= KvCap,
         call' = NoCall, fed' = <<>>, out' = <<>>
  PROVE  IInv'
  <1>1. EngineTypeOK'
    BY NoCallType DEF EngineTypeOK
  <1>2. RoomIsLeft' /\ ContextMatchesCache'
    BY DEF RoomIsLeft, ContextMatchesCache, NoCall
  <1>3. /\ NothingGenerated' /\ IdleForgets' /\ NotBeyond'
        /\ ResetBefore' /\ UnderWay' /\ AnnouncedContext'
    BY DEF NothingGenerated, IdleForgets, Idle, NotBeyond, ResetBefore, UnderWay, AnnouncedContext,
           NoCall
  <1> QED  BY <1>1, <1>2, <1>3 DEF IInv
-----------------------------------------------------------------------------
(* Steps of a generation.                                                  *)

\* What is known of the call in every state.
LEMMA CallFacts ==
  ASSUME IInv
  PROVE  /\ call.prompt \in Seq(TokenIds) /\ Len(call.prompt) \in Nat
         /\ call.gen \in Nat /\ call.max \in Nat
         /\ Len(kv) \in Nat /\ Len(out) \in Nat /\ KvCap \in Nat \ {0}
         /\ DOMAIN call = {"op", "prompt", "max", "gen", "stage"}
  <1>1. call.prompt \in {<<>>} \cup Prompts /\ call.max \in {0} \cup MaxTokens
    BY DEF IInv, EngineTypeOK
  <1>2. call.prompt \in Seq(TokenIds) /\ call.max \in Nat
    <2>1. <<>> \in Seq(TokenIds)
      BY EmptySeq
    <2>2. call.max \in Nat
      <3>1. MaxTokens \subseteq Nat
        BY EngineAssumption
      <3>2. call.max = 0 \/ call.max \in MaxTokens
        BY <1>1
      <3>3. 0 \in Nat
        OBVIOUS
      <3> QED  BY <3>1, <3>2, <3>3, Zenon
    <2>3. call.prompt \in Seq(TokenIds)
      BY <1>1, <2>1, EngineAssumption
    <2> QED  BY <2>2, <2>3
  <1>3. Len(call.prompt) \in Nat /\ Len(kv) \in Nat /\ Len(out) \in Nat
    BY <1>2, LenProperties DEF IInv, EngineTypeOK
  <1> QED  BY <1>2, <1>3, EngineAssumption DEF IInv, EngineTypeOK

LEMMA BeginIInv ==
  ASSUME IInv, NEW op \in {"sync", "stream"}, NEW p \in Prompts, NEW max \in MaxTokens,
         Begin(op, p, max)
  PROVE  IInv'
  <1>1. /\ call' = [op |-> op, prompt |-> p, max |-> max, gen |-> 0, stage |-> "prefill"]
        /\ kv' = IF backend = "none" THEN kv ELSE <<>>
        /\ UNCHANGED <<source, loaded, backend, fed, out>>
        /\ call.stage = "idle" /\ out = <<>>
    BY DEF Begin, IInv, NothingGenerated, Idle
  <1>2. /\ call'.stage = "prefill" /\ call'.op = op /\ call'.gen = 0
        /\ max \in Nat
        /\ call' \in [op : {"none", "sync", "stream"}, prompt : {<<>>} \cup Prompts,
                      max : {0} \cup MaxTokens, gen : Nat, stage : Stages]
        /\ call'.max = max
    BY <1>1, EngineAssumption DEF Stages
  <1>3. kv' \in Seq(TokenIds) /\ Len(kv') <= KvCap
    BY <1>1, NoCallType, CallFacts DEF IInv, EngineTypeOK, RoomIsLeft
  <1>4. EngineTypeOK'
    <2>1. call'.gen <= call'.max
      BY <1>2
    <2> QED  BY <1>1, <1>2, <1>3, <2>1 DEF IInv, EngineTypeOK
  <1>5. RoomIsLeft' /\ ContextMatchesCache'
    BY <1>2, <1>3 DEF RoomIsLeft, ContextMatchesCache
  <1>6. /\ NothingGenerated' /\ IdleForgets' /\ NotBeyond'
        /\ ResetBefore' /\ UnderWay' /\ AnnouncedContext'
    BY <1>1, <1>2 DEF NothingGenerated, IdleForgets, Idle, NotBeyond, ResetBefore, UnderWay,
           AnnouncedContext
  <1> QED  BY <1>4, <1>5, <1>6 DEF IInv

\* The buffer after the prompt is within the context; and it is the prompt, when
\* that fits.
LEMMA PrefilledFits ==
  ASSUME IInv, call.stage = "prefill"
  PROVE  /\ Prefilled \in Seq(TokenIds)
         /\ Len(Prefilled) \in 0 .. KvCap
         /\ backend # "none" /\ Len(call.prompt) <= KvCap => Prefilled = call.prompt
  <1> DEFINE p == call.prompt
  <1>0. p \in Seq(TokenIds) /\ Len(p) \in Nat
    BY CallFacts
  <1>1. /\ kv \in Seq(TokenIds) /\ Len(kv) \in 0 .. KvCap /\ KvCap \in Nat \ {0}
        /\ call.op \in {"sync", "stream"} /\ backend \in {"arch", "tf", "none"}
    BY CallFacts DEF IInv, EngineTypeOK, RoomIsLeft, UnderWay
  <1>2. CASE backend = "none" /\ call.op = "stream"
    BY <1>1, <1>2 DEF Prefilled
  <1>3. CASE backend = "none" /\ call.op = "sync"
    <2>1. Prefilled = kv \o UpTo(p, KvCap - Len(kv))
      BY <1>3 DEF Prefilled
    <2>2. KvCap - Len(kv) \in Nat
      BY <1>1
    <2>3. UpTo(p, KvCap - Len(kv)) \in Seq(TokenIds) /\ Len(UpTo(p, KvCap - Len(kv))) <= KvCap - Len(kv)
      BY <1>0, <2>2, UpToType
    <2>4. /\ Prefilled \in Seq(TokenIds)
          /\ Len(Prefilled) = Len(kv) + Len(UpTo(p, KvCap - Len(kv)))
      BY <1>1, <2>1, <2>3, ConcatProperties
    <2>5. Len(UpTo(p, KvCap - Len(kv))) \in Nat
      BY <2>3, LenProperties
    <2> QED  BY <1>1, <1>3, <2>3, <2>4, <2>5
  <1>4. CASE backend # "none" /\ call.op = "stream" /\ Len(p) > KvCap
    <2>1. Prefilled = UpTo(p, KvCap - 1) \o <<p[Len(p)]>>
      BY <1>4 DEF Prefilled
    <2>2. KvCap - 1 \in Nat
      BY <1>1
    <2>3. UpTo(p, KvCap - 1) \in Seq(TokenIds) /\ Len(UpTo(p, KvCap - 1)) <= KvCap - 1
      BY <1>0, <2>2, UpToType
    <2>4. p[Len(p)] \in TokenIds
      BY <1>0, <1>1, <1>4, ElementOfSeq
    <2>5. <<p[Len(p)]>> \in Seq(TokenIds) /\ Len(<<p[Len(p)]>>) = 1
      BY <2>4
    <2>6. /\ Prefilled \in Seq(TokenIds)
          /\ Len(Prefilled) = Len(UpTo(p, KvCap - 1)) + 1
      BY <2>1, <2>3, <2>5, ConcatProperties
    <2>7. Len(UpTo(p, KvCap - 1)) \in Nat
      BY <2>3, LenProperties
    <2> QED  BY <1>0, <1>1, <1>4, <2>3, <2>6, <2>7
  <1>5. CASE backend # "none" /\ ~ (call.op = "stream" /\ Len(p) > KvCap)
    <2>1. Prefilled = UpTo(p, KvCap)
      BY <1>5 DEF Prefilled
    <2>2. /\ UpTo(p, KvCap) \in Seq(TokenIds)
          /\ Len(UpTo(p, KvCap)) <= KvCap
          /\ Len(p) <= KvCap => UpTo(p, KvCap) = p
      BY <1>0, <1>1, UpToType
    <2>3. Len(UpTo(p, KvCap)) \in Nat
      BY <2>2, LenProperties
    <2> QED  BY <1>1, <2>1, <2>2, <2>3
  <1> QED  BY <1>1, <1>2, <1>3, <1>4, <1>5

\* What Fitting returns leaves the context room, and is no more than was asked for.
LEMMA FittingFits ==
  ASSUME NEW len \in 0 .. KvCap, NEW max \in Nat
  PROVE  /\ Fitting(len, max) \in Nat
         /\ Fitting(len, max) <= max
         /\ len + Fitting(len, max) <= KvCap
  BY EngineAssumption DEF Fitting

LEMMA PrefillIInv ==
  ASSUME IInv, Prefill
  PROVE  IInv'
  <1> DEFINE p == call.prompt
             gen == Fitting(Len(Prefilled), call.max)
             stage == IF call.op = "stream" THEN "announce" ELSE "tokens"
  <1>1. /\ call.stage = "prefill"
        /\ kv' = Prefilled /\ fed' = FedPrompt
        /\ call' = [call EXCEPT !.gen = gen, !.stage = stage]
        /\ source' = source /\ loaded' = loaded /\ backend' = backend /\ out' = out
    BY DEF Prefill
  <1>2. /\ kv' \in Seq(TokenIds)
        /\ Len(kv') \in 0 .. KvCap
        /\ backend # "none" /\ Len(p) <= KvCap => kv' = p
    BY <1>1, PrefilledFits
  <1>3. /\ gen \in Nat
        /\ gen <= call.max
        /\ Len(kv') + gen <= KvCap
    BY <1>1, <1>2, CallFacts, FittingFits
  <1>4. /\ call'.gen = gen /\ call'.stage = stage /\ call'.op = call.op
        /\ call'.max = call.max /\ call'.prompt = call.prompt
        /\ call.op \in {"sync", "stream"}
        /\ out = <<>> /\ out' = <<>>
    <2> HIDE DEF gen, stage
    <2> QED  BY <1>1, CallFacts DEF IInv, EngineTypeOK, UnderWay, NothingGenerated
  <1>5. call' \in [op : {"none", "sync", "stream"}, prompt : {<<>>} \cup Prompts,
                  max : {0} \cup MaxTokens, gen : Nat, stage : Stages]
    <2>1. stage \in Stages
      BY DEF Stages
    <2> HIDE DEF gen, stage
    <2> QED  BY <1>1, <1>3, <2>1 DEF IInv, EngineTypeOK
  <1>6. backend = "none" => fed' = <<>>
    BY <1>1 DEF FedPrompt
  <1>7. backend # "none" => fed' = FedOf(p)
    BY <1>1 DEF FedPrompt, FedOf
  <1>8. fed' \in Seq([token : TokenIds, pos : Nat])
    <2>1. FedOf(p) \in Seq([token : TokenIds, pos : Nat])
      BY CallFacts, FedOfType
    <2> QED  BY <1>6, <1>7, <2>1, NoCallType
  <1> HIDE DEF gen
  <1>9. EngineTypeOK'
    BY <1>1, <1>2, <1>3, <1>4, <1>5, <1>8 DEF IInv, EngineTypeOK
  <1>10. RoomIsLeft'
    <2>1. Len(out') = 0
      BY <1>4, NoCallType
    <2> QED  BY <1>2, <1>3, <1>4, <2>1, EngineAssumption DEF RoomIsLeft
  <1>11. ContextMatchesCache'
    <2> SUFFICES ASSUME backend # "none", Len(p) <= KvCap
                 PROVE  kv' = p \o out' /\ fed' = FedOf(kv')
      BY <1>1, <1>4 DEF ContextMatchesCache, FedOf
    <2> QED  BY <1>2, <1>4, <1>7, CallFacts, ConcatEmptySeq
  <1>12. AnnouncedContext'
    BY <1>1, <1>2, <1>3, <1>4, <1>7 DEF AnnouncedContext, FedOf
  <1>13. NothingGenerated' /\ IdleForgets' /\ NotBeyond' /\ ResetBefore' /\ UnderWay'
    <2>1. Len(out') = 0
      BY <1>4, NoCallType
    <2> QED
      BY <1>1, <1>3, <1>4, <2>1
      DEF NothingGenerated, IdleForgets, Idle, NotBeyond, ResetBefore, UnderWay
  <1> QED  BY <1>9, <1>10, <1>11, <1>12, <1>13 DEF IInv

\* A token of either kind of generation.
LEMMA TokenIInv ==
  ASSUME IInv, NEW tok \in TokenIds,
         call.stage = "tokens", Len(out) < call.gen,
         out' = Append(out, tok), kv' = Remembered(tok), fed' = Fed(tok),
         source' = source, loaded' = loaded, backend' = backend, call' = call
  PROVE  IInv'
  <1>1. kv \in Seq(TokenIds) /\ out \in Seq(TokenIds)
    BY DEF IInv, EngineTypeOK
  <1>2. Len(kv) + (call.gen - Len(out)) <= KvCap
    BY DEF IInv, RoomIsLeft
  <1>3. kv' = Append(kv, tok)
    BY <1>2, CallFacts DEF Remembered
  <1>4. /\ kv' \in Seq(TokenIds) /\ Len(kv') = Len(kv) + 1
        /\ out' \in Seq(TokenIds) /\ Len(out') = Len(out) + 1
    BY <1>1, <1>3, AppendProperties
  <1>5. backend # "none" =>
          fed' = Append(fed, [token |-> tok, pos |-> Len(Append(kv, tok)) - 1])
    BY <1>3 DEF Fed, Pos
  <1>6. fed' \in Seq([token : TokenIds, pos : Nat])
    <2>1. CASE backend = "none"
      BY <2>1 DEF Fed, IInv, EngineTypeOK
    <2>2. CASE backend # "none"
      <3> DEFINE e == [token |-> tok, pos |-> Len(Append(kv, tok)) - 1]
      <3>1. Len(Append(kv, tok)) - 1 \in Nat
        BY <1>3, <1>4, CallFacts
      <3>2. e \in [token : TokenIds, pos : Nat]
        BY <3>1
      <3>3. fed \in Seq([token : TokenIds, pos : Nat])
        BY DEF IInv, EngineTypeOK
      <3> HIDE DEF e
      <3>4. Append(fed, e) \in Seq([token : TokenIds, pos : Nat])
        BY <3>2, <3>3, AppendProperties
      <3> QED  BY <1>5, <2>2, <3>4 DEF e
    <2> QED  BY <2>1, <2>2
  <1>7. EngineTypeOK'
    BY <1>4, <1>6 DEF IInv, EngineTypeOK
  <1>8. RoomIsLeft'
    BY <1>2, <1>4, CallFacts DEF RoomIsLeft
  <1>9. ContextMatchesCache'
    <2> SUFFICES ASSUME backend # "none", Len(call.prompt) <= KvCap
                 PROVE  kv' = call.prompt \o out' /\ fed' = FedOf(kv')
      BY DEF ContextMatchesCache, FedOf
    <2>1. kv = call.prompt \o out /\ fed = FedOf(kv)
      BY DEF IInv, ContextMatchesCache, FedOf
    <2>2. kv' = call.prompt \o out'
      <3>1. /\ kv' = kv \o <<tok>>
            /\ out' = out \o <<tok>>
        BY <1>1, <1>3, AppendIsConcat
      <3>2. <<tok>> \in Seq(TokenIds)
        OBVIOUS
      <3>3. (call.prompt \o out) \o <<tok>> = call.prompt \o (out \o <<tok>>)
        BY <1>1, <3>2, CallFacts, ConcatAssociative
      <3> QED  BY <2>1, <3>1, <3>3
    <2>3. fed' = FedOf(kv')
      BY <1>1, <1>3, <1>5, <2>1, FedOfAppend
    <2> QED  BY <2>2, <2>3
  <1>10. NothingGenerated' /\ IdleForgets' /\ ResetBefore' /\ UnderWay' /\ AnnouncedContext'
    BY DEF NothingGenerated, IdleForgets, Idle, ResetBefore, UnderWay, AnnouncedContext, IInv
  <1>11. NotBeyond'
    BY <1>4, CallFacts DEF NotBeyond
  <1> QED  BY <1>7, <1>8, <1>9, <1>10, <1>11 DEF IInv

LEMMA AnnounceIInv ==
  ASSUME IInv, Announce
  PROVE  IInv'
  <1>1. /\ call.stage = "announce"
        /\ call' = [call EXCEPT !.stage = "tokens"]
        /\ source' = source /\ loaded' = loaded /\ backend' = backend
        /\ kv' = kv /\ fed' = fed /\ out' = out
    BY DEF Announce
  <1>2. /\ call'.stage = "tokens"
        /\ call'.gen = call.gen /\ call'.op = call.op
        /\ call'.max = call.max /\ call'.prompt = call.prompt
        /\ out = <<>> /\ Len(out) = 0
        /\ call.op = "stream"
    BY <1>1, CallFacts, NoCallType
    DEF IInv, EngineTypeOK, NothingGenerated, AnnouncedContext
  <1>3. /\ Len(kv) + call.gen <= KvCap
        /\ backend # "none" /\ Len(call.prompt) <= KvCap
           => kv = call.prompt /\ fed = FedOf(kv)
    BY <1>1 DEF IInv, AnnouncedContext
  <1>4. call' \in [op : {"none", "sync", "stream"}, prompt : {<<>>} \cup Prompts,
                  max : {0} \cup MaxTokens, gen : Nat, stage : Stages]
    BY <1>1 DEF IInv, EngineTypeOK, Stages
  <1>5. EngineTypeOK'
    BY <1>1, <1>2, <1>4 DEF IInv, EngineTypeOK
  <1>6. RoomIsLeft' /\ NotBeyond'
    BY <1>1, <1>2, <1>3, CallFacts DEF IInv, RoomIsLeft, NotBeyond
  <1>7. ContextMatchesCache'
    <2> SUFFICES ASSUME backend # "none", Len(call.prompt) <= KvCap
                 PROVE  kv = call.prompt \o out /\ fed = FedOf(kv)
      BY <1>1, <1>2 DEF ContextMatchesCache, FedOf
    <2> QED  BY <1>2, <1>3, CallFacts, ConcatEmptySeq
  <1>8. NothingGenerated' /\ IdleForgets' /\ ResetBefore' /\ UnderWay' /\ AnnouncedContext'
    BY <1>2 DEF NothingGenerated, IdleForgets, Idle, ResetBefore, UnderWay, AnnouncedContext
  <1> QED  BY <1>5, <1>6, <1>7, <1>8 DEF IInv

LEMMA OverrunIInv ==
  ASSUME IInv, PrefillOverruns
  PROVE  IInv'
  <1>1. /\ call.stage = "prefill"
        /\ call' = [call EXCEPT !.stage = "gone"]
        /\ source' = source /\ loaded' = loaded /\ backend' = backend
        /\ kv' = kv /\ fed' = fed /\ out' = out
    BY DEF PrefillOverruns
  <1>2. /\ call'.stage = "gone"
        /\ call'.gen = call.gen /\ call'.max = call.max
    BY <1>1, CallFacts DEF IInv, EngineTypeOK
  <1>3. call' \in [op : {"none", "sync", "stream"}, prompt : {<<>>} \cup Prompts,
                  max : {0} \cup MaxTokens, gen : Nat, stage : Stages]
    BY <1>1 DEF IInv, EngineTypeOK, Stages
  <1>4. EngineTypeOK'
    BY <1>1, <1>2, <1>3 DEF IInv, EngineTypeOK
  <1>5. RoomIsLeft' /\ ContextMatchesCache'
    BY <1>1, <1>2 DEF IInv, RoomIsLeft, ContextMatchesCache
  <1>6. /\ NothingGenerated' /\ IdleForgets' /\ NotBeyond'
        /\ ResetBefore' /\ UnderWay' /\ AnnouncedContext'
    BY <1>2 DEF NothingGenerated, IdleForgets, Idle, NotBeyond, ResetBefore, UnderWay,
           AnnouncedContext
  <1> QED  BY <1>4, <1>5, <1>6 DEF IInv

\* A call that ends, and whatever is done between calls.
LEMMA EndIInv ==
  ASSUME IInv, EndCall, source' = source, loaded' = loaded, backend' = backend,
         kv' \in Seq(TokenIds), Len(kv') <= KvCap
  PROVE  IInv'
  BY IdleIInv DEF EndCall, IInv, EngineTypeOK

LEMMA BetweenIInv ==
  ASSUME IInv, Load \/ LoadFails \/ Unload \/ KvReset \/ KvLoad
  PROVE  IInv'
  <1>1. /\ call = NoCall /\ fed = <<>> /\ out = <<>>
        /\ call' = call /\ fed' = fed /\ out' = out
    BY DEF Load, LoadFails, Unload, KvReset, KvLoad, IInv, IdleForgets, NothingGenerated, Idle
  <1>2. source' \in Sources /\ loaded' \in BOOLEAN /\ backend' \in {"arch", "tf", "none"}
    BY DEF Load, LoadFails, Unload, KvReset, KvLoad, IInv, EngineTypeOK
  <1>3. kv' \in Seq(TokenIds) /\ Len(kv') <= KvCap
    <2>1. CASE Load \/ LoadFails \/ Unload \/ KvReset
      <3>1. kv' = kv \/ kv' = <<>>
        BY <2>1 DEF Load, LoadFails, Unload, KvReset
      <3>2. kv \in Seq(TokenIds) /\ Len(kv) <= KvCap
        BY DEF IInv, EngineTypeOK, RoomIsLeft
      <3>3. <<>> \in Seq(TokenIds) /\ Len(<<>>) <= KvCap
        BY NoCallType, CallFacts
      <3> QED  BY <3>1, <3>2, <3>3
    <2>2. CASE KvLoad
      <3>1. PICK n \in 0 .. KvCap : kv' \in [1 .. n -> TokenIds]
        BY <2>2 DEF KvLoad
      <3>2. n \in Nat /\ n <= KvCap
        BY <3>1, CallFacts
      <3>3. kv' \in Seq(TokenIds) /\ Len(kv') = n
        BY <3>1, <3>2
      <3> QED  BY <3>2, <3>3
    <2> QED  BY <2>1, <2>2
  <1> QED  BY <1>1, <1>2, <1>3, IdleIInv

LEMMA StepIInv == IInv /\ [EngineNext]_engineVars => IInv'
  <1> SUFFICES ASSUME IInv, [EngineNext]_engineVars
               PROVE  IInv'
    OBVIOUS
  <1>0. kv \in Seq(TokenIds) /\ Len(kv) <= KvCap
    BY DEF IInv, EngineTypeOK, RoomIsLeft
  <1>1. CASE Load \/ LoadFails \/ Unload \/ KvReset \/ KvLoad
    BY <1>1, BetweenIInv
  <1>2. CASE \E op \in {"sync", "stream"}, p \in Prompts, max \in MaxTokens : Begin(op, p, max)
    BY <1>2, BeginIInv
  <1>3. CASE Prefill
    BY <1>3, PrefillIInv
  <1>4. CASE PrefillOverruns
    BY <1>4, OverrunIInv
  <1>5. CASE Announce
    BY <1>5, AnnounceIInv
  <1>6. CASE AnnounceEnds \/ Return
    BY <1>0, <1>6, EndIInv DEF AnnounceEnds, Return
  <1>7. CASE \E tok \in TokenIds : SyncToken(tok) \/ StreamToken(tok)
    BY <1>7, TokenIInv DEF SyncToken, StreamToken
  <1>8. CASE \E tok \in TokenIds : StreamTokenEnds(tok)
    <2>1. PICK tok \in TokenIds : StreamTokenEnds(tok)
      BY <1>8
    <2>2. /\ call.op = "stream" /\ EndCall
          /\ source' = source /\ loaded' = loaded /\ backend' = backend
          /\ kv' = Remembered(tok) \/ kv' = kv
      BY <2>1 DEF StreamTokenEnds
    <2>3. kv' \in Seq(TokenIds) /\ Len(kv') <= KvCap
      <3>1. CASE kv' = kv
        BY <1>0, <3>1
      <3>2. CASE Len(kv) < KvCap /\ kv' = Append(kv, tok)
        <4>1. kv' \in Seq(TokenIds) /\ Len(kv') = Len(kv) + 1
          BY <1>0, <3>2, AppendProperties
        <4> QED  BY <3>2, <4>1, CallFacts
      <3> QED  BY <2>2, <3>1, <3>2 DEF Remembered
    <2> QED  BY <2>2, <2>3, EndIInv
  <1>9. CASE UNCHANGED engineVars
    BY <1>9
    DEF engineVars, IInv, EngineTypeOK, RoomIsLeft, ContextMatchesCache, NothingGenerated,
        IdleForgets, Idle, NotBeyond, ResetBefore, UnderWay, AnnouncedContext
  <1> QED
    BY <1>1, <1>2, <1>3, <1>4, <1>5, <1>6, <1>7, <1>8, <1>9 DEF EngineNext

LEMMA IInvHolds == EngineSpec => []IInv
  BY InitIInv, StepIInv, PTL DEF EngineSpec

\* The engine's variables keep their types, and no call generates more than was
\* asked for, whatever the prompts, the context and the kind of model.
THEOREM EngineTypeCorrect == EngineSpec => []EngineTypeOK
  <1>1. IInv => EngineTypeOK
    BY DEF IInv
  <1> QED  BY <1>1, IInvHolds, PTL

\* kv_tokens is never written past its end after a prefill that stayed within it,
\* for any capacity: also by the loops that do not look at kv_cap.
THEOREM BufferIsLargeEnough == EngineSpec => []RoomIsLeft
  <1>1. IInv => RoomIsLeft
    BY DEF IInv
  <1> QED  BY <1>1, IInvHolds, PTL

\* The buffer and the backend's context agree while tokens are generated, for
\* prompts of any length up to the context's.
THEOREM ContextIsTheCache == EngineSpec => []ContextMatchesCache
  <1>1. IInv => ContextMatchesCache
    BY DEF IInv
  <1> QED  BY <1>1, IInvHolds, PTL
-----------------------------------------------------------------------------
(* The server.                                                             *)

\* Every step of the server is a step of its engine, or leaves it alone.
LEMMA ServerStepsAreEngineSteps ==
  [ServerNext]_allVars => [EngineNext]_engineVars
  <1> SUFFICES ASSUME [ServerNext]_allVars
               PROVE  EngineNext \/ UNCHANGED engineVars
    OBVIOUS
  <1>1. CASE OwnerUsesEngine
    BY <1>1 DEF OwnerUsesEngine
  <1>2. CASE Bind \/ SetRunning \/ TestRunning \/ CallAccept \/ AcceptReturns
    BY <1>2 DEF Bind, SetRunning, TestRunning, CallAccept, AcceptReturns, Accept, AcceptFails
  <1>3. CASE ReceiveAndAnswer
    BY <1>3 DEF ReceiveAndAnswer
  <1>4. CASE ReceiveCompletion
    <2> DEFINE r == inbox[cur]
    <2>1. r \in Completions /\ Begin(r.op, r.prompt, r.max)
      BY <1>4 DEF ReceiveCompletion
    <2>2. r.op \in {"sync", "stream"} /\ r.prompt \in Prompts /\ r.max \in MaxTokens
      BY <2>1 DEF Completions
    <2> HIDE DEF r
    <2> QED  BY <2>1, <2>2 DEF EngineNext
  <1>5. CASE Generate
    <2>1. \/ Prefill \/ PrefillOverruns \/ Announce
          \/ \E t \in TokenIds : SyncToken(t) \/ StreamToken(t)
      BY <1>5 DEF Generate
    <2> QED  BY <2>1 DEF EngineNext
  <1>6. CASE Respond
    BY <1>6 DEF Respond, EngineNext
  <1>7. CASE StopFlag \/ StopClose \/ \E c \in Clients : Connect(c) \/ SendOrLeave(c)
    BY <1>7 DEF StopFlag, StopClose, Connect, SendOrLeave
  <1>8. CASE UNCHANGED allVars
    BY <1>8 DEF allVars
  <1> QED
    BY <1>1, <1>2, <1>3, <1>4, <1>5, <1>6, <1>7, <1>8 DEF ServerNext, ServerStep

\* The server over its engine implements the engine: what is proved of the engine
\* holds of the engine of a server, too.
THEOREM ServerImplementsEngine == ServerSpec => EngineSpec
  <1>1. ServerInit => EngineInit
    BY DEF ServerInit
  <1> QED  BY <1>1, ServerStepsAreEngineSteps, PTL DEF ServerSpec, EngineSpec

\* A stop that was heard stays heard, and leaves one accept at most.
StopInv ==
  /\ spc \in {"created", "bound"} => ~ running /\ ~ heard
  /\ heard => ~ running /\ stop # "no"
  /\ late \in {0, 1}
  /\ late = 1 => heard /\ spc \notin {"created", "bound", "calling", "accepting"}

LEMMA StopInvStep == StopInv /\ [ServerNext]_allVars => StopInv'
  <1> SUFFICES ASSUME StopInv, [ServerNext]_allVars
               PROVE  StopInv'
    OBVIOUS
  <1> USE DEF StopInv, socketVars
  <1>1. CASE OwnerUsesEngine \/ UNCHANGED allVars
    BY <1>1 DEF OwnerUsesEngine, allVars, serverVars
  <1>2. CASE Bind \/ SetRunning
    BY <1>2 DEF Bind, SetRunning
  <1>3. CASE TestRunning
    BY <1>3 DEF TestRunning, KeepsServing
  <1>4. CASE CallAccept
    BY <1>4 DEF CallAccept
  <1>5. CASE AcceptReturns
    BY <1>5 DEF AcceptReturns, Accept, AcceptFails
  <1>6. CASE ReceiveAndAnswer \/ Respond
    BY <1>6 DEF ReceiveAndAnswer, Respond, Close
  <1>7. CASE ReceiveCompletion \/ Generate
    BY <1>7 DEF ReceiveCompletion, Generate
  <1>8. CASE StopFlag \/ StopClose
    BY <1>8 DEF StopFlag, StopClose
  <1>9. CASE \E c \in Clients : Connect(c) \/ SendOrLeave(c)
    BY <1>9 DEF Connect, SendOrLeave
  <1> QED
    BY <1>1, <1>2, <1>3, <1>4, <1>5, <1>6, <1>7, <1>8, <1>9 DEF ServerNext, ServerStep

\* After a stop that found the server running it accepts at most one connection
\* more, for any number of clients and in whatever order the threads run.
THEOREM StopEndsAccepting == ServerSpec => []StopIsHeard
  <1>1. ServerInit => StopInv
    BY DEF ServerInit, StopInv
  <1>2. StopInv => StopIsHeard
    BY DEF StopInv, StopIsHeard
  <1> QED  BY <1>1, <1>2, StopInvStep, PTL DEF ServerSpec
-----------------------------------------------------------------------------
(* What the server sends.                                                  *)

\* While a request is served, the engine's call is that request's; whatever is
\* sent outside of a stream's tokens is nothing.
ServesOwn ==
  /\ spc # "generating" => sent = NoChunks
  /\ spc \notin {"created", "generating"} => Idle
  /\ spc = "generating" =>
       /\ inbox[cur] \in Completions
       /\ call.stage \in {"prefill", "announce", "tokens", "gone"}
       /\ call.op = inbox[cur].op /\ call.prompt = inbox[cur].prompt
       /\ call.stage # "tokens" \/ call.op # "stream" => sent = NoChunks

ServerInv == IInv /\ ServerTypeOK /\ ServesOwn /\ StreamIsOwn

\* The server's own variables.
OwnTypes ==
  /\ listen \in {"none", "open", "closed"}
  /\ running \in BOOLEAN
  /\ spc \in {"created", "bound", "testing", "calling", "accepting", "receiving",
              "generating", "returned"}
  /\ cur \in Clients \cup {NoClient}
  /\ stop \in {"no", "flagged", "done"}
  /\ conn \in [Clients -> {"away", "queued", "accepted", "closed"}]
  /\ inbox \in [Clients -> Completions \cup {Silent, HungUp, Plain}]
  /\ heard \in BOOLEAN
  /\ late \in Nat
  /\ cur # NoClient <=> spc \in {"receiving", "generating"}

SentType == sent \in [tokens : Seq(TokenIds), ends : 0 .. 1]

LEMMA ServerTypeParts == ServerTypeOK <=> EngineTypeOK /\ OwnTypes /\ SentType
  BY DEF ServerTypeOK, OwnTypes, SentType

LEMMA NoChunksType ==
  /\ NoChunks \in [tokens : Seq(TokenIds), ends : 0 .. 1]
  /\ NoChunks.tokens = <<>> /\ NoChunks.ends = 0
  <1>1. <<>> \in Seq(TokenIds)
    BY EmptySeq
  <1> QED  BY <1>1 DEF NoChunks

\* A request that is none of the others is a completion.
LEMMA RequestKinds ==
  \A r \in Completions : r # Silent /\ r # HungUp /\ r # Plain /\ r.op \in {"sync", "stream"}
  BY DEF Completions, Silent, HungUp, Plain, Other

LEMMA OwnTypesStep == OwnTypes /\ [ServerNext]_allVars => OwnTypes'
  <1> SUFFICES ASSUME OwnTypes, [ServerNext]_allVars
               PROVE  OwnTypes'
    OBVIOUS
  <1> USE DEF OwnTypes, socketVars, clientVars
  <1>0. NoClient \notin Clients /\ \A r \in Completions : r # Silent
    BY ServerAssumption, RequestKinds
  <1>1. CASE OwnerUsesEngine \/ UNCHANGED allVars
    BY <1>1 DEF OwnerUsesEngine, allVars, serverVars
  <1>2. CASE Bind \/ SetRunning \/ TestRunning \/ CallAccept
    BY <1>2 DEF Bind, SetRunning, TestRunning, CallAccept
  <1>3. CASE AcceptFails
    BY <1>3 DEF AcceptFails
  <1>4. ASSUME NEW c \in Clients, Accept(c)
        PROVE  OwnTypes'
    <2>1. late' \in Nat
      BY <1>4 DEF Accept
    <2>2. conn' \in [Clients -> {"away", "queued", "accepted", "closed"}]
      BY <1>4 DEF Accept
    <2> QED  BY <1>0, <1>4, <2>1, <2>2 DEF Accept
  <1>5. CASE ReceiveAndAnswer \/ Respond
    <2>1. Close /\ UNCHANGED <<listen, running, stop, heard, late>>
      BY <1>5 DEF ReceiveAndAnswer, Respond
    <2>2. conn' \in [Clients -> {"away", "queued", "accepted", "closed"}]
      BY <2>1 DEF Close
    <2>3. inbox' \in [Clients -> Completions \cup {Silent, HungUp, Plain}]
      <3>1. inbox' = [inbox EXCEPT ![cur] = Silent]
        BY <2>1 DEF Close
      <3> QED  BY <3>1
    <2> QED  BY <2>1, <2>2, <2>3 DEF Close
  <1>6. CASE ReceiveCompletion
    BY <1>6 DEF ReceiveCompletion
  <1>7. CASE Generate
    BY <1>7 DEF Generate
  <1>8. CASE StopFlag \/ StopClose
    BY <1>8 DEF StopFlag, StopClose
  <1>9. ASSUME NEW c \in Clients, Connect(c)
        PROVE  OwnTypes'
    <2>1. conn' \in [Clients -> {"away", "queued", "accepted", "closed"}]
      BY <1>9 DEF Connect
    <2> QED  BY <1>9, <2>1 DEF Connect
  <1>10. ASSUME NEW c \in Clients, SendOrLeave(c)
         PROVE  OwnTypes'
    <2>1. PICK r \in Completions \cup {Plain, HungUp} : inbox' = [inbox EXCEPT ![c] = r]
      BY <1>10 DEF SendOrLeave
    <2>2. inbox' \in [Clients -> Completions \cup {Silent, HungUp, Plain}]
      BY <2>1
    <2> QED  BY <1>10, <2>2 DEF SendOrLeave
  <1> QED
    BY <1>1, <1>2, <1>3, <1>4, <1>5, <1>6, <1>7, <1>8, <1>9, <1>10
    DEF ServerNext, ServerStep, AcceptReturns

\* Steps that are not of the generation.
LEMMA BetweenServesOwn ==
  ASSUME ServerInv, ServerNext, ~ Generate, ~ ReceiveCompletion
  PROVE  SentType' /\ ServesOwn' /\ StreamIsOwn'
  <1> USE DEF ServerInv, ServerTypeOK, OwnTypes, SentType
  <1>1. CASE OwnerUsesEngine
    BY <1>1 DEF OwnerUsesEngine, serverVars, clientVars, ServesOwn, StreamIsOwn
  <1>2. CASE Bind \/ SetRunning \/ TestRunning \/ CallAccept \/ AcceptReturns
    <2>1. /\ sent' = sent /\ call' = call
          /\ spc # "generating" /\ spc' \notin {"created", "generating"}
          /\ Idle
      BY <1>2 DEF Bind, SetRunning, TestRunning, CallAccept, AcceptReturns, Accept, AcceptFails,
             clientVars, engineVars, ServesOwn
    <2> QED  BY <2>1 DEF ServesOwn, StreamIsOwn, Idle
  <1>3. CASE ReceiveAndAnswer \/ Respond
    <2>1. sent' = NoChunks /\ spc' = "testing"
      BY <1>3 DEF ReceiveAndAnswer, Respond, Close
    <2>2. Idle'
      BY <1>3 DEF ReceiveAndAnswer, Respond, engineVars, ServesOwn, Return, EndCall, NoCall, Idle
    <2> QED  BY <2>1, <2>2, NoChunksType DEF ServesOwn, StreamIsOwn
  <1>4. CASE StopFlag \/ StopClose \/ \E c \in Clients : Connect(c)
    <2>1. /\ sent' = sent /\ call' = call /\ out' = out
          /\ spc' = spc /\ cur' = cur /\ inbox' = inbox
      BY <1>4 DEF StopFlag, StopClose, Connect, clientVars, engineVars
    <2> QED  BY <2>1 DEF ServesOwn, StreamIsOwn, Idle
  <1>5. ASSUME NEW c \in Clients, SendOrLeave(c)
        PROVE  SentType' /\ ServesOwn' /\ StreamIsOwn'
    <2>1. /\ sent' = sent /\ call' = call /\ out' = out
          /\ spc' = spc /\ cur' = cur
          /\ inbox[c] = Silent
      BY <1>5 DEF SendOrLeave, engineVars
    <2>2. PICK r : inbox' = [inbox EXCEPT ![c] = r]
      BY <1>5 DEF SendOrLeave
    <2>3. spc = "generating" => inbox'[cur] = inbox[cur]
      BY <2>1, <2>2, RequestKinds DEF ServesOwn
    <2> QED  BY <2>1, <2>3 DEF ServesOwn, StreamIsOwn, Idle
  <1> QED
    BY <1>1, <1>2, <1>3, <1>4, <1>5 DEF ServerNext, ServerStep

\* A request is taken on.
LEMMA TakenOn ==
  ASSUME ServerInv, ReceiveCompletion
  PROVE  SentType' /\ ServesOwn' /\ StreamIsOwn'
  <1> DEFINE r == inbox[cur]
  <1>1. /\ r \in Completions
        /\ call' = [op |-> r.op, prompt |-> r.prompt, max |-> r.max, gen |-> 0,
                    stage |-> "prefill"]
        /\ sent' = sent /\ inbox' = inbox /\ cur' = cur
        /\ spc = "receiving" /\ spc' = "generating"
    BY DEF ReceiveCompletion, Begin, clientVars
  <1>2. call'.stage = "prefill" /\ call'.op = r.op /\ call'.prompt = r.prompt
    BY <1>1
  <1>3. sent = NoChunks
    BY <1>1 DEF ServerInv, ServesOwn
  <1> QED
    BY <1>1, <1>2, <1>3, NoChunksType DEF SentType, ServesOwn, StreamIsOwn

\* A token of a stream is sent, or the end of the stream.
LEMMA TokenIsSent ==
  ASSUME ServerInv, spc = "generating", NEW tok \in TokenIds, StreamToken(tok),
         sent' = Chunk(tok, IsLast)
  PROVE  /\ SentType'
         /\ sent'.tokens = SubSeq(out', 1, Len(out') - sent'.ends)
         /\ sent'.ends = IF out' # <<>> /\ Len(out') = call.gen THEN 1 ELSE 0
  <1>1. /\ out' = Append(out, tok)
        /\ call.stage = "tokens" /\ call.op = "stream" /\ Len(out) < call.gen
    BY DEF StreamToken
  <1>2. /\ out \in Seq(TokenIds) /\ Len(out) \in Nat /\ call.gen \in Nat
        /\ SentType
    BY CallFacts, ServerTypeParts DEF ServerInv, IInv, EngineTypeOK
  <1>3. /\ sent.tokens = SubSeq(out, 1, Len(out) - sent.ends)
        /\ sent.ends = IF out # <<>> /\ Len(out) = call.gen THEN 1 ELSE 0
    BY <1>1 DEF ServerInv, StreamIsOwn
  <1>4. sent.ends = 0
    BY <1>1, <1>2, <1>3
  <1>5. sent.tokens = out
    BY <1>2, <1>3, <1>4, SubSeqFull
  <1>6. /\ out' \in Seq(TokenIds) /\ Len(out') = Len(out) + 1
        /\ out' # <<>>
        /\ SubSeq(out', 1, Len(out)) = out
    <2>1. out' \in Seq(TokenIds) /\ Len(out') = Len(out) + 1
          /\ \A i \in 1 .. Len(out) : out'[i] = out[i]
      BY <1>1, <1>2, AppendProperties
    <2>2. SubSeq(out', 1, Len(out)) = out
      BY <1>1, <1>2
    <2>3. Len(<<>>) = 0
      BY EmptySeq
    <2> QED  BY <1>2, <2>1, <2>2, <2>3
  <1>7. CASE IsLast
    <2>1. sent' = [sent EXCEPT !.ends = @ + 1] /\ Len(out') = call.gen
      BY <1>2, <1>6, <1>7 DEF Chunk, IsLast
    <2>2. sent'.ends = 1 /\ sent'.tokens = out
      BY <1>2, <1>4, <1>5, <2>1 DEF SentType
    <2>3. SentType'
      BY <1>2, <1>4, <2>1 DEF SentType
    <2>4. Len(out') - 1 = Len(out)
      BY <1>2, <1>6
    <2> QED  BY <1>6, <2>1, <2>2, <2>3, <2>4
  <1>8. CASE ~ IsLast
    <2>1. sent' = [sent EXCEPT !.tokens = Append(@, tok)] /\ Len(out') # call.gen
      BY <1>2, <1>6, <1>8 DEF Chunk, IsLast
    <2>2. sent'.ends = 0 /\ sent'.tokens = out'
      BY <1>1, <1>2, <1>4, <1>5, <2>1 DEF SentType
    <2>3. SentType'
      BY <1>1, <1>2, <1>5, <1>6, <2>1 DEF SentType
    <2>4. SubSeq(out', 1, Len(out') - 0) = out'
      BY <1>2, <1>6, SubSeqFull
    <2> QED  BY <2>1, <2>2, <2>3, <2>4
  <1> QED  BY <1>7, <1>8

LEMMA GeneratesOwn ==
  ASSUME ServerInv, Generate
  PROVE  SentType' /\ ServesOwn' /\ StreamIsOwn'
  <1>1. /\ spc = "generating" /\ spc' = spc /\ cur' = cur /\ inbox' = inbox
    BY DEF Generate
  <1>2. /\ inbox[cur] \in Completions
        /\ call.op = inbox[cur].op /\ call.prompt = inbox[cur].prompt
        /\ call.op \in {"sync", "stream"}
        /\ call.stage # "tokens" \/ call.op # "stream" => sent = NoChunks
        /\ SentType
    BY <1>1, RequestKinds, ServerTypeParts DEF ServerInv, ServesOwn
  <1>3. out \in Seq(TokenIds) /\ (call.stage # "tokens" => out = <<>> \/ call.stage = "gone")
    BY DEF ServerInv, IInv, EngineTypeOK, NothingGenerated, Stages
  <1>4. CASE (Prefill \/ PrefillOverruns \/ Announce) /\ sent' = sent
    <2>1. /\ call'.stage \in {"announce", "tokens", "gone"}
          /\ call'.op = call.op /\ call'.prompt = call.prompt
          /\ call'.stage = "tokens" /\ call.op = "stream" => call.stage = "announce"
          /\ call.stage \in {"prefill", "announce"} /\ out' = out
      BY <1>2, <1>4, CallFacts DEF Prefill, PrefillOverruns, Announce, ServerInv
    <2>2. out' = <<>> /\ sent' = NoChunks
      BY <1>2, <1>3, <1>4, <2>1
    <2>3. SubSeq(<<>>, 1, Len(<<>>) - 0) = <<>>
      OBVIOUS
    <2> QED
      BY <1>1, <1>2, <2>1, <2>2, <2>3, NoChunksType DEF SentType, ServesOwn, StreamIsOwn
  <1>5. ASSUME NEW tok \in TokenIds, SyncToken(tok), sent' = sent
        PROVE  SentType' /\ ServesOwn' /\ StreamIsOwn'
    <2>1. call' = call /\ call.op = "sync" /\ call.stage = "tokens"
      BY <1>5 DEF SyncToken
    <2> QED  BY <1>1, <1>2, <1>5, <2>1 DEF SentType, ServesOwn, StreamIsOwn
  <1>6. ASSUME NEW tok \in TokenIds, StreamToken(tok), sent' = Chunk(tok, IsLast)
        PROVE  SentType' /\ ServesOwn' /\ StreamIsOwn'
    <2>1. call' = call /\ call.op = "stream" /\ call.stage = "tokens"
      BY <1>6 DEF StreamToken
    <2> QED  BY <1>1, <1>2, <1>6, <2>1, TokenIsSent DEF ServesOwn, StreamIsOwn
  <1> QED
    BY <1>4, <1>5, <1>6 DEF Generate

LEMMA ServerInvStep == ServerInv /\ [ServerNext]_allVars => ServerInv'
  <1> SUFFICES ASSUME ServerInv, [ServerNext]_allVars
               PROVE  ServerInv'
    OBVIOUS
  <1>1. IInv'
    BY ServerStepsAreEngineSteps, StepIInv DEF ServerInv
  <1>2. OwnTypes'
    BY OwnTypesStep, ServerTypeParts DEF ServerInv
  <1>3. SentType' /\ ServesOwn' /\ StreamIsOwn'
    <2>1. CASE Generate
      BY <2>1, GeneratesOwn
    <2>2. CASE ReceiveCompletion
      BY <2>2, TakenOn
    <2>3. CASE ServerNext /\ ~ Generate /\ ~ ReceiveCompletion
      BY <2>3, BetweenServesOwn
    <2>4. CASE UNCHANGED allVars
      <3>1. SentType
        BY ServerTypeParts DEF ServerInv
      <3> QED
        BY <2>4, <3>1
        DEF ServerInv, allVars, serverVars, clientVars, engineVars, SentType, ServesOwn,
            StreamIsOwn, Idle
    <2> QED  BY <2>1, <2>2, <2>3, <2>4
  <1>4. EngineTypeOK'
    BY <1>1 DEF IInv
  <1>5. ServerTypeOK'
    BY <1>2, <1>3, <1>4 DEF ServerTypeOK, OwnTypes, SentType
  <1> QED  BY <1>1, <1>3, <1>5 DEF ServerInv

LEMMA ServerInvHolds == ServerSpec => []ServerInv
  <1>1. ServerInit => ServerInv
    <2> SUFFICES ASSUME ServerInit PROVE ServerInv
      OBVIOUS
    <2>1. IInv /\ EngineTypeOK
      BY InitIInv DEF ServerInit, IInv
    <2>2. OwnTypes
      BY ServerAssumption DEF ServerInit, OwnTypes
    <2>3. SentType /\ ServesOwn /\ StreamIsOwn
      BY NoChunksType DEF ServerInit, SentType, ServesOwn, StreamIsOwn
    <2> QED  BY <2>1, <2>2, <2>3, ServerTypeParts DEF ServerInv
  <1> QED  BY <1>1, ServerInvStep, PTL DEF ServerSpec

\* The variables of the server and of its engine keep their types, for any
\* number of clients and whatever they ask for.
THEOREM ServerTypeCorrect == ServerSpec => []ServerTypeOK
  <1>1. ServerInv => ServerTypeOK
    BY DEF ServerInv
  <1> QED  BY <1>1, ServerInvHolds, PTL

\* Whatever other clients do meanwhile, a stream of any length sends what is
\* generated for its own request, and says stop once, in place of the last token.
THEOREM StreamsAreOwn == ServerSpec => []StreamIsOwn
  <1>1. ServerInv => StreamIsOwn
    BY DEF ServerInv
  <1> QED  BY <1>1, ServerInvHolds, PTL
===============================================================================
