SPECIFICATION Spec
CONSTANT Jobs <- ScaleDtypes
CHECK_DEADLOCK FALSE
INVARIANT ScalesAreFp16
