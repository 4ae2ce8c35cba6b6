----------------------------- MODULE RenderScopes ------------------------------
(***************************************************************************)
(* games/ac7/src/render_scope.cpp: scopes that AC7's hooks queue into the  *)
(* engine's RHI command list.                                              *)
(*                                                                         *)
(* The render thread opens a scope by appending a begin marker to the list *)
(* and closes it by appending an end marker; the RHI thread executes the   *)
(* list in order, keeps a stack of the scopes it is inside of, and retires *)
(* a scope's ticket and lease with its end marker.                         *)
(*                                                                         *)
(* A ticket is <<renderer, kind>>. A lease has the name of the ticket that *)
(* owns it; releasing it only queues its references (`retired') for the    *)
(* render thread, which alone may drop engine references.                  *)
(***************************************************************************)
EXTENDS Integers, Sequences, FiniteSets

CONSTANTS Renderers,   \* scene renderers (their addresses)
          Capacity     \* the scopes that may be outstanding

ASSUME CapacityAssumption == Capacity \in Nat \ {0}

VARIABLES
    accepting,   \* scopes are opened
    open,        \* the tickets that exist; their number is `outstanding'
    list,        \* the RHI command list: commands not executed yet
    stack,       \* the scopes the RHI thread is inside of
    retired      \* leases released by the RHI stream and not yet drained

scopeVars == <<accepting, open, list, stack, retired>>

Kind == {"frame", "submission", "sr", "uniforms"}
Ticket == Renderers \X Kind
Leases == {t \in Ticket : t[2] \in {"sr", "uniforms"}}

Command == [op : {"begin", "end"}, of : Ticket]
           \union [op : {"draw", "present"}, of : Renderers]
Begin(t) == [op |-> "begin", of |-> t]
End(t) == [op |-> "end", of |-> t]
Draw(r) == [op |-> "draw", of |-> r]
Present(r) == [op |-> "present", of |-> r]

ScopesInit ==
    /\ accepting = TRUE /\ open = {} /\ list = <<>> /\ stack = <<>> /\ retired = {}

\* `takes' is what append answers: a list that is executing refuses a marker.
MayOpen(takes) == accepting /\ Cardinality(open) < Capacity /\ takes

\* rsf_ac7_render_scope_open_leased, and commands recorded behind its marker.
Open(t, behind) ==
    /\ open' = open \union {t}
    /\ list' = list \o <<Begin(t)>> \o behind

\* Open and close with nothing between them, for the lease alone.
Enclose(t, closes, behind) ==
    Open(t, (IF closes THEN <<End(t)>> ELSE <<>>) \o behind)

\* What the ticket's lease.release hands over, if the ticket has one.
LeaseOfAny(t) == {t}   \* a bug: it is not asked whether there is one
LeaseOf(t) == {t} \cap Leases

\* A bug: the lease goes back when the scope is entered, with its work still queued.
EnterReleasing(t) ==
    /\ stack' = Append(stack, t)
    /\ retired' = retired \union LeaseOf(t)
    /\ UNCHANGED <<accepting, open>>

\* execute_scope, begin: the scope is entered.
Enter(t) ==
    /\ stack' = Append(stack, t)
    /\ UNCHANGED <<accepting, open, retired>>

\* A bug: the outermost scope is compared.
LeftOutermost(t) ==
    IF stack # <<>> /\ stack[1] = t THEN SubSeq(stack, 1, Len(stack) - 1) ELSE stack

\* execute_scope, end: the scope is left when it is the innermost one, and its ticket retires.
Left(t) ==
    IF stack # <<>> /\ stack[Len(stack)] = t THEN SubSeq(stack, 1, Len(stack) - 1) ELSE stack

Leave(t) ==
    /\ stack' = Left(t)
    /\ retired' = retired \union LeaseOf(t)
    /\ open' = open \ {t}
    /\ UNCHANGED accepting

\* rsf_ac7_render_scopes_idle, and the test of rsf_ac7_render_scopes_destroy.
Idle == ~accepting /\ open = {} /\ stack = <<>>

=============================================================================
