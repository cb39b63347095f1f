CONSTANTS
    HTTPD_SIMPLE_MAIN_BUF_SIZE = 3
    Lengths = {0, 1, 3}
    MaxHits = 3
    Routes = {a, b, c}
    NoRoute = NoRoute
    MaxRows = 5
SPECIFICATION MCSpec
INVARIANTS
    StreamIntact
    DeliveredAtClose
    ShowsEachRouteOnce
