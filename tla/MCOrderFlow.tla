----------------------------- MODULE MCOrderFlow -----------------------------
(* Small instances of OrderFlow for TLC.                                   *)
EXTENDS OrderProgress, TLC

\* What an Apple device sends.
AppleAttestation ==
  [format |-> "apple", att |-> [fmt |-> "none", x5c |-> "bytes", nested |-> FALSE]]

\* The same with a map inside, which cannot be stored.
NestedAttestation == [AppleAttestation EXCEPT !.att.nested = TRUE]

\* What the client of the integration test sends, and the same with its format
\* repeated in the statement.
NullAttestation  == [format |-> "null", att |-> NoAttestation]
NamedAttestation == [NullAttestation EXCEPT !.att.fmt = "null"]

AnySubmission    == {AppleAttestation, NestedAttestation, NamedAttestation}
PlainSubmission  == {AppleAttestation, NullAttestation}
DeviceSubmission == {AppleAttestation}

\* Accounts, handlers and serials are interchangeable, and so are orders.
Symmetry == Permutations(Accounts) \cup Permutations(Handlers)
              \cup Permutations(Serials) \cup Permutations(OrderIds)
==============================================================================
