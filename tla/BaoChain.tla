------------------------------- MODULE BaoChain -------------------------------
(***************************************************************************)
(* baohttp/bao/context.go and recovery.go: Context.Next runs the chain of  *)
(* handlers of a request.  A handler may call Next itself and may panic;   *)
(* Recovery calls Next and recovers.  Every loop of Next on the stack      *)
(* counts with the same c.index.                                           *)
(***************************************************************************)
EXTENDS Naturals, Sequences

VARIABLES
  chain,     \* c.handlers: what each handler does
  index,     \* c.index, from 1
  frames,    \* the calls under way: [at, handler], a handler or a loop of Next
  ran        \* history: the handlers that were called

chainVars == <<chain, index, frames, ran>>

\* Which handlers call Next, before whatever else they do, and which panic.
HandlerKinds == {"recovery", "plain", "next", "panic", "nextpanic"}
CallsNext(kind) == kind \in {"recovery", "next", "nextpanic"}
Panics(kind) == kind \in {"panic", "nextpanic"}

NextLoop == [at |-> "next", handler |-> 0]
Call(k, state) == [at |-> state, handler |-> k]

ChainInit == chain = <<>> /\ index = 0 /\ frames = <<>> /\ ran = <<>>

\* The first c.Next() of a request with these handlers.
Starts(c) ==
  /\ chain = <<>> /\ chain' = c
  /\ index' = 1 /\ frames' = <<NextLoop>>
  /\ UNCHANGED ran

Top == frames[Len(frames)]
TopReturns == SubSeq(frames, 1, Len(frames) - 1)

\* The loop of Next calls the handler at c.index, or is over.
NextCalls ==
  /\ frames # <<>> /\ Top.at = "next"
  /\ IF index <= Len(chain)
     THEN frames' = Append(frames, Call(index, "called")) /\ ran' = Append(ran, index)
     ELSE frames' = TopReturns /\ UNCHANGED ran
  /\ UNCHANGED <<index, chain>>

HandlerCallsNext ==
  /\ frames # <<>> /\ Top.at = "called" /\ CallsNext(chain[Top.handler])
  /\ index' = index + 1
  /\ frames' = Append([frames EXCEPT ![Len(frames)] = Call(Top.handler, "back")], NextLoop)
  /\ UNCHANGED <<ran, chain>>

\* The handler has done what it does, and panics or not.
Over(panics) ==
  /\ frames # <<>>
  /\ Top.at = "back" \/ (Top.at = "called" /\ ~CallsNext(chain[Top.handler]))
  /\ Panics(chain[Top.handler]) = panics

\* Mutant of HandlerReturns: the loop does not go on to the next handler.
HandlerReturnsStays ==
  /\ Over(FALSE)
  /\ frames' = TopReturns
  /\ UNCHANGED <<index, ran, chain>>

\* It returns to the loop, which increments the index that all loops share.
HandlerReturns ==
  /\ Over(FALSE)
  /\ frames' = TopReturns
  /\ index' = index + 1
  /\ UNCHANGED <<ran, chain>>

\* Recovery recovers: the calls above it are gone, it returns to its loop.
Catching == {k \in DOMAIN frames : frames[k].at # "next" /\ chain[frames[k].handler] = "recovery"}
Recovers ==
  /\ Over(TRUE)
  /\ frames' = IF Catching = {} THEN <<>>
               ELSE SubSeq(frames, 1, (CHOOSE k \in Catching : \A j \in Catching : j <= k) - 1)
  /\ index' = index + 1
  /\ UNCHANGED <<ran, chain>>

ChainRunsOn == NextCalls \/ HandlerCallsNext \/ HandlerReturns \/ Recovers

\* A request has any handlers behind the Recovery that NewEngine registers.
ChainNext ==
  \/ \E c \in Seq(HandlerKinds) : c # <<>> /\ c[1] = "recovery" /\ Starts(c)
  \/ ChainRunsOn

ChainSpec == ChainInit /\ [][ChainNext]_chainVars

-----------------------------------------------------------------------------
\* Handlers run once each and in order, however they call Next.  A panic that
\* Recovery catches does not stop the chain: the outer loop goes on with the
\* handler behind the one that panicked.  Only a second panic, which nothing
\* catches any more, can keep handlers from running.
ChainRuns ==
  /\ \A k \in DOMAIN ran : ran[k] = k
  /\ chain # <<>> /\ frames = <<>> =>
       \/ Len(ran) = Len(chain)
       \/ \E j, k \in DOMAIN ran : j # k /\ Panics(chain[j]) /\ Panics(chain[k])
=============================================================================
