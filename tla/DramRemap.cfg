SPECIFICATION Spec
CONSTANTS
    process_count = 2
    Core = {c1}
    pages = 3
    tlb_size = 2
    total_page_count = 2
    min_free_pages = 1
    enable_shared_memory = TRUE
INVARIANTS BlocksHoldOnePage
