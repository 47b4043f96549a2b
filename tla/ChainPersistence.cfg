\* Two chains that share the store, heights and hashes to collide on.
CONSTANTS
    ChainIds = {1, 2}
    Numbers = {1, 2}
    Hashes = {h1, h2}
SPECIFICATION Spec
INVARIANT TypeOK
PROPERTY LastChangesOnlyBySave
PROPERTY RecordsStayPut
CHECK_DEADLOCK FALSE
