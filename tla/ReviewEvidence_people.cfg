SPECIFICATION Spec
CHECK_DEADLOCK FALSE
CONSTANTS
    alice = alice
    alice2 = alice2
    bob = bob
    bot = bot
    Alice = Alice
    Bob = Bob
    Machine = Machine
    Credentials = {alice, alice2, bob, bot}
    People = {Alice, Bob, Machine}
    Humans = {Alice, Bob}
    Holder <- MCHolder
    Policies <- MCPolicies
    Lines <- MCLines
    Reviews01 <- MCReviews01
    Reviews02 <- MCReviews02
    Length = 2
    MaxDigests = 2
    MaxMade <- MCMaxMade
INVARIANTS
    HumansCounted
    TrailersBounded
    OneResult
PROPERTY OthersUntouched
