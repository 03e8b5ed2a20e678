SPECIFICATION Spec
CONSTANT Threads = {t1, t2}
INVARIANTS TypeOK SafeUnlessRaced PingsWhenConnected
PROPERTIES CloseReturns StaysInTouch
CHECK_DEADLOCK FALSE
