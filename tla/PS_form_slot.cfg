\* One form, and a second start of its checkout that fails, in the form's last moments.
CONSTANTS
    PromoCodes = {p1}
    NoCode = NoCode
    Offers = {o1}
    NoOffer = NoOffer
    Started = {o1}
    Starts = {s1}
    Limit = 1
    OpeningTime = 1
    FormTime = 2
    LastStart = 1
    MaxChanges = 0

SPECIFICATION PromoSpec

CHECK_DEADLOCK FALSE  \* every start is over, and the clock is at its bound

INVARIANTS
    FormKeepsItsSlot
