----------------------------- MODULE MCMetadata -----------------------------
(***************************************************************************)
(* How metadata is read, for TLC: signatures, and what MetadataReaders has. *)
(* Again a behaviour is one of one of them.                                 *)
(***************************************************************************)
EXTENDS MetadataReaders

VARIABLES sig, heap, blob, todo, read    \* Signatures

sigVars == <<sig, heap, blob, todo, read>>

Tables == INSTANCE MCMetadataLayout WITH Files <- {}
SomeFiles == Tables!SomeFiles

Sigs == INSTANCE MCSignatures
S == INSTANCE Signatures WITH Inputs <- Sigs!SomeInputs

Rows == INSTANCE MCRowLists
SomeDatabases == Rows!SomeDatabases

Dbs == INSTANCE MCCache
SomeInputs == Dbs!SomeInputs
SomeRemovals == Dbs!SomeRemovals
SomeNumbers == {1, 2}

Rules == INSTANCE MCFilter
TheDot == Rules!dot
SomeNames == Rules!SomeTypes
SomeTexts == Rules!SomeTexts

-----------------------------------------------------------------------------

NoSig == sig = None /\ heap = None /\ blob = None /\ todo = None /\ read = None

MetadataInit ==
    \/ ReadersInit /\ NoSig
    \/ /\ part = "signature" /\ S!Init
       /\ NoTable /\ last = None /\ met = None /\ NoCache /\ NoFilter /\ NoLayout

MetadataNext ==
    \/ ReadersNext /\ UNCHANGED sigVars
    \/ /\ part = "signature" /\ part' = part /\ S!Next
       /\ UNCHANGED <<tableVars, last, met, cacheVars, filterVars, layoutVars>>

metadataVars == <<readersVars, sigVars>>

\* The code is sequential: what is read is read to its end.
MetadataSpec == MetadataInit /\ [][MetadataNext]_metadataVars /\ WF_metadataVars(MetadataNext)

-----------------------------------------------------------------------------

\* A signature is read as it was written, or refused for the order of its
\* prefixes: see Signatures.
SignaturesReadAsWritten ==
    part = "signature" => S!TypeOK /\ S!BlobFound /\ S!ReadAsWritten /\ S!KnownIsRead

\* The loops over rows that end at a row and not behind it, and over prefixes and
\* parameters that end at a byte of another kind, come to their end.
ReadingEnds ==
    /\ part = "rows" ~> pc = "done"
    /\ part = "signature" ~> pc \in {"read", "threw"}
=============================================================================
