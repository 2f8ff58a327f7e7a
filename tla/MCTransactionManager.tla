------------------------ MODULE MCTransactionManager ------------------------
EXTENDS TransactionManager, TLC
=============================================================================
