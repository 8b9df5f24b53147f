\* A return to the page reads anew: refuted by a follow that ends meanwhile.
SPECIFICATION Spec
CONSTANTS
    Tokens = {t1}
    None = None
    Queries = {q1}
    Filters = {f1}
    Companies = 2
    Wanted = {1}
    MaxSearches = 2
INVARIANTS
    ReadyShowsAnswer
