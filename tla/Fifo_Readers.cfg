SPECIFICATION Spec
CONSTANTS
    Elements = {e1, e2, e3}
    Readers = {r1, r2}
    MaskWidth = 8
    Synchron = {r1}
    MaxPush = 3
SYMMETRY Symmetry
INVARIANTS TypeOK ElementsAccounted   TailIsLast
           
 
CHECK_DEADLOCK FALSE
