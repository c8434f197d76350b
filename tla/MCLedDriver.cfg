\* One LED with all its registers, two tasks that ask all there is to ask, the
\* task of probe, and two attempts of the five: the first and the last one.
CONSTANTS
    Leds = {l1}
    Tasks = {t1, t2}
    Brights = {Dim, Half}
    Colors = {Black, White}
    Blinks = {blink}
    Black = Black
    White = White
    Zero = Zero
    Half = Half
    Invalid = Invalid
    None = None
    RetryCount = 2
SPECIFICATION Spec
INVARIANTS
    TypeOK
    StateCoherent
    Obeyed
SYMMETRY Symmetry
