\* An object whose length makes the position go back to the first octet.
CONSTANT Inputs <- MCWrapping
SPECIFICATION Spec
PROPERTY Terminates
CHECK_DEADLOCK FALSE
