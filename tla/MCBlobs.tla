------------------------------- MODULE MCBlobs -------------------------------
\* Each behaviour writes the blob of one document, or translates one page
EXTENDS MCBlobTranslate, MCBlobWriter

VARIABLE part      \* "write" or "translate"

blobsVars == <<blobVars, vars, part>>

Nothing == CHOOSE p \in Pages : TRUE

BlobsInit ==
  \/ /\ part = "write" /\ page = Nothing
     /\ Init /\ BlobInit
  \/ /\ part = "translate" /\ Init
     /\ doc = [kind |-> <<"Document">>, parent |-> <<0>>, says |-> <<"">>, site |-> "plain"] /\ WriterInit

BlobsNext ==
  \/ part = "write" /\ (WriterNext \/ BlobDone) /\ UNCHANGED <<vars, part>>
  \/ part = "translate" /\ Next /\ UNCHANGED <<blobVars, part>>

BlobsSpec == BlobsInit /\ [][BlobsNext]_blobsVars
=============================================================================
